---- MODULE Spec2Model ----
(***************************************************************************)
(* Conversation orchestration of the valuation agent:                      *)
(*   - DatabaseManager: conversation_threads / conversation_messages       *)
(*   - ValuationAgentService: startValuation, sendMessage, runQuery,       *)
(*     restoreConversation, persistMessage, clearConversation              *)
(* Asynchronous calls are modelled per call slot with a program counter;   *)
(* every await of the source that can interleave is a separate step.       *)
(***************************************************************************)
EXTENDS Integers, Sequences, FiniteSets, TLC

\* ------------------------------------------------------------------ bounds
Projects == {1, 2}
Calls == {1, 2}
\* query() is not invoked more than MaxQueries times (MaxTurns when calls are serial
\* on one project)
MaxQueries == 2
MaxTurns == 3
\* query() invocations in the block-level behaviours
MaxBlockTurns == 1
\* query() invocations in the behaviours with log write failures
MaxFailTurns == 1
\* writes to the methods table and weight button clicks in the behaviours of the project
\* panel
MaxMethodWrites == 2
MaxClicks == 2
MaxRequests == 3

VARIABLES
    database,       \* [threads, messages, now]: the two conversation tables and the clock
    conversations,  \* Map<projectId, conversation object>: project -> object id, 0 = absent
    objs,           \* the conversation objects: id -> [history, threadId]
    calls,          \* one record per call slot: position and locals of an async call
    ret,            \* per call slot, what the call returned or threw (until the next request)
    nQuery,         \* number of query() invocations so far
    methods,        \* the methods table of the open project, ORDER BY created_at
    panel           \* the state of the ProjectDetail component of the open project

vars == <<database, conversations, objs, calls, ret, nQuery, methods, panel>>

\* ------------------------------------------------------------- small helpers
Max(S) == CHOOSE x \in S : \A y \in S : y <= x
Min(S) == CHOOSE x \in S : \A y \in S : x <= y
Range(s) == {s[i] : i \in DOMAIN s}

RECURSIVE Flatten(_)
Flatten(ss) == IF ss = <<>> THEN <<>> ELSE Head(ss) \o Flatten(Tail(ss))

\* metadata objects; the empty strings and -1 stand for an absent field
Meta(tool, language, success, executionTime, valuationValue, methodType) ==
    [tool |-> tool, language |-> language, success |-> success,
     executionTime |-> executionTime, valuationValue |-> valuationValue,
     methodType |-> methodType]
NoMeta == Meta("", "", "", -1, -1, "")

\* ---------------------------------------------------------------- database
\* conversation_threads row; status 'deleted' stands for a removed row (ids are
\* AUTOINCREMENT and never reused)
ThreadRow(p, ts) == [project_id |-> p, status |-> "active", last_message_at |-> ts]

ThreadIds(db) == 1..Len(db.threads)
ThreadExists(db, t) == t \in ThreadIds(db) /\ db.threads[t].status # "deleted"

\* datetime('now') has a resolution of one second: a write falls into the second of the
\* latest write or into a later one
Ticks(db) == {db.now, db.now + 1}

\* Only the order of the last_message_at of the active threads is ever read (by
\* getActiveThreadByProject): times are kept as ranks, 0 for the other rows.
Rank(db, ts) ==
    Cardinality({db.threads[t].last_message_at :
                    t \in {u \in ThreadIds(db) : db.threads[u].status = "active"
                                                 /\ db.threads[u].last_message_at < ts}}) + 1
Normalize(db) ==
    [db EXCEPT !.threads = [t \in ThreadIds(db) |->
                               [db.threads[t] EXCEPT !.last_message_at =
                                   IF db.threads[t].status = "active"
                                   THEN Rank(db, db.threads[t].last_message_at) ELSE 0]],
               !.now = Rank(db, db.now)]

createThread(db, p, ts) ==
    [db EXCEPT !.threads = Append(@, ThreadRow(p, ts)),
               !.messages = Append(@, <<>>),
               !.now = ts]

\* SELECT ... WHERE project_id = ? AND status = 'active' ORDER BY last_message_at DESC LIMIT 1:
\* the set of rows the query may return (rows of the same second are not ordered)
getActiveThreadByProject(db, p) ==
    LET act == {t \in ThreadIds(db) : db.threads[t].project_id = p
                                      /\ db.threads[t].status = "active"}
    IN {t \in act : \A u \in act : db.threads[u].last_message_at <= db.threads[t].last_message_at}

archiveThread(db, t) ==
    IF ThreadExists(db, t) THEN [db EXCEPT !.threads[t].status = "archived"] ELSE db

\* DELETE FROM conversation_threads; the messages go with it (ON DELETE CASCADE)
deleteThread(db, t) ==
    IF ThreadExists(db, t)
    THEN [db EXCEPT !.threads[t].status = "deleted", !.messages[t] = <<>>]
    ELSE db

\* COALESCE(MAX(sequence_number), 0) + 1
NextSeqNoPlusOne(rows) ==
    IF rows = <<>> THEN 0 ELSE Max({rows[i].sequence_number : i \in DOMAIN rows})
NextSeq(rows) ==
    (IF rows = <<>> THEN 0 ELSE Max({rows[i].sequence_number : i \in DOMAIN rows})) + 1

\* the INSERT, then updateThreadLastMessage
createMessageOverLast(db, t, type, content, metadata, ts) ==
    [db EXCEPT !.messages[t] =
                   IF @ = <<>>
                   THEN <<[type |-> type, content |-> content, metadata |-> metadata,
                           sequence_number |-> 1]>>
                   ELSE [@ EXCEPT ![Len(@)] = [type |-> type, content |-> content,
                                               metadata |-> metadata,
                                               sequence_number |-> Len(db.messages[t])]],
               !.threads[t].last_message_at = ts,
               !.now = ts]
createMessage(db, t, type, content, metadata, ts) ==
    [db EXCEPT !.messages[t] = Append(@, [type |-> type, content |-> content,
                                           metadata |-> metadata,
                                           sequence_number |-> NextSeq(db.messages[t])]),
               !.threads[t].last_message_at = ts,
               !.now = ts]

\* ORDER BY sequence_number ASC
RECURSIVE InsertBySeq(_, _)
InsertBySeq(sorted, row) ==
    IF sorted = <<>> THEN <<row>>
    ELSE IF row.sequence_number < Head(sorted).sequence_number
         THEN <<row>> \o sorted
         ELSE <<Head(sorted)>> \o InsertBySeq(Tail(sorted), row)
RECURSIVE SortBySeq(_)
SortBySeq(rows) ==
    IF rows = <<>> THEN <<>>
    ELSE InsertBySeq(SortBySeq(SubSeq(rows, 1, Len(rows) - 1)), rows[Len(rows)])

getMessagesByThread(db, t) ==
    IF t \in ThreadIds(db) THEN SortBySeq(db.messages[t]) ELSE <<>>

\* ------------------------------------------------- the collaborator's events
T_HELLO == "Hello, I am the MGX Valuation Agent."
T_DCF == "DCF_VALUE: $2,500,000"
T_COMPS == "COMPS_VALUE: $3,000,000"
T_BOTH == "DCF_VALUE: $2,500,000 COMPS_VALUE: $3,000,000"
T_BOTH_REV == "COMPS_VALUE: $3,000,000 DCF_VALUE: $2,500,000"
T_LOWER == "dcf valuation: 1,000 and comp value: 7"
T_NEAR == "DCF-VALUE: $5 COMPS_VALUE: $"
T_TWICE == "DCF_VALUE: $1,000 DCF_VALUE: $2,000"
T_OUT == "npv = 2500000"
T_CMD == "python dcf.py"
T_LS == "ls -la"
T_ECHO == "echo DCF_VALUE: $5"
T_JSON == "{json of the chunk}"
T_USER == "please proceed"

TextBlock(text) == [type |-> "text", text |-> text, name |-> "", command |-> ""]
ToolUseBlock(name, command) == [type |-> "tool_use", text |-> "", name |-> name, command |-> command]

Chunk(type, blocks, text, is_error, duration_ms) ==
    [type |-> type, blocks |-> blocks, text |-> text, is_error |-> is_error,
     duration_ms |-> duration_ms]

\* events of the collaborator: assistant content, tool result, final result, system
C_Hello == Chunk("assistant", <<TextBlock(T_HELLO)>>, "", FALSE, 0)
C_DcfBash == Chunk("assistant", <<TextBlock(T_DCF), ToolUseBlock("Bash", T_CMD)>>, "", FALSE, 0)
C_Bash == Chunk("assistant", <<ToolUseBlock("Bash", T_CMD)>>, "", FALSE, 0)
C_Read == Chunk("assistant", <<ToolUseBlock("Read", "")>>, "", FALSE, 0)
C_ToolResult == Chunk("tool_result", <<>>, T_OUT, FALSE, 2000)
C_ResultHello == Chunk("result", <<>>, T_HELLO, FALSE, 0)
C_ResultOut == Chunk("result", <<>>, T_OUT, FALSE, 0)
C_ResultEmpty == Chunk("result", <<>>, "", FALSE, 0)
C_System == Chunk("system", <<>>, "", FALSE, 0)

\* the streams of the session-level behaviours; a stream may also end or fail early
SessionStreams == { <<C_Hello, C_Read>> }
ShortStreams == { <<C_Hello>> }
\* the streams of the turn-level behaviours: several blocks in one event, tool results,
\* final results that repeat or do not repeat an earlier message
TurnStreams == { <<C_DcfBash, C_ToolResult, C_ResultOut>>,
                 <<C_Hello, C_ResultHello>>,
                 <<C_System, C_Read, C_ResultHello>> }

\* the streams of the block-level behaviours: one assistant event of one or two content
\* blocks, drawn from texts with and without result markers and from tool-use blocks with
\* and without a command
ToolBlocks ==
    {ToolUseBlock("Bash", cmd) : cmd \in {"", T_CMD, T_LS, T_ECHO}}
    \cup {ToolUseBlock("Read", cmd) : cmd \in {"", T_ECHO}}
TextBlocks ==
    {TextBlock(t) : t \in {T_HELLO, T_DCF, T_COMPS, T_BOTH, T_BOTH_REV, T_LOWER, T_NEAR,
                           T_TWICE}}
Blocks == TextBlocks \cup ToolBlocks
\* events that are not assistant content, with a result marker in their text
C_ToolResultDcf == Chunk("tool_result", <<>>, T_DCF, FALSE, 2000)
C_ResultDcf == Chunk("result", <<>>, T_DCF, FALSE, 0)
\* an event of another type that carries content blocks and text
C_UserDcf == Chunk("user", <<TextBlock(T_DCF)>>, T_DCF, FALSE, 0)
BlockStreams ==
    {<<Chunk("assistant", bs, "", FALSE, 0)>> :
        bs \in {<<b>> : b \in Blocks}
               \cup {<<b, TextBlock(T_HELLO)>> : b \in ToolBlocks \cup {TextBlock(T_DCF)}}}
    \cup {<<C_ToolResultDcf>>, <<C_ResultDcf>>, <<C_System>>}
    \cup {<<C_Bash, C_System>>, <<C_Bash, C_UserDcf>>}

IsPrefix(s, t) == Len(s) <= Len(t) /\ SubSeq(t, 1, Len(s)) = s
\* the events a stream of Streams may deliver after `received`
NextChunks(Streams, received) ==
    {st[Len(received) + 1] : st \in {t \in Streams : Len(t) > Len(received)
                                                     /\ IsPrefix(received, t)}}

\* ------------------------------------------------------ result extraction
\* the characters of the texts (TLC strings cannot be taken apart)
Chars(text) ==
    CASE text = T_HELLO ->
          <<"H", "e", "l", "l", "o", ",", " ", "I", " ", "a", "m", " ", "t", "h", "e", " ",
          "M", "G", "X", " ", "V", "a", "l", "u", "a", "t", "i", "o", "n", " ",
          "A", "g", "e", "n", "t", ".">>
      [] text = T_DCF ->
          <<"D", "C", "F", "_", "V", "A", "L", "U", "E", ":", " ", "$", "2", ",", "5", "0",
          "0", ",", "0", "0", "0">>
      [] text = T_COMPS ->
          <<"C", "O", "M", "P", "S", "_", "V", "A", "L", "U", "E", ":", " ", "$", "3", ",",
          "0", "0", "0", ",", "0", "0", "0">>
      [] text = T_BOTH ->
          <<"D", "C", "F", "_", "V", "A", "L", "U", "E", ":", " ", "$", "2", ",", "5", "0",
          "0", ",", "0", "0", "0", " ", "C", "O", "M", "P", "S", "_", "V", "A",
          "L", "U", "E", ":", " ", "$", "3", ",", "0", "0", "0", ",", "0", "0", "0">>
      [] text = T_BOTH_REV ->
          <<"C", "O", "M", "P", "S", "_", "V", "A", "L", "U", "E", ":", " ", "$", "3", ",",
          "0", "0", "0", ",", "0", "0", "0", " ", "D", "C", "F", "_", "V", "A",
          "L", "U", "E", ":", " ", "$", "2", ",", "5", "0", "0", ",", "0", "0", "0">>
      [] text = T_LOWER ->
          <<"d", "c", "f", " ", "v", "a", "l", "u", "a", "t", "i", "o", "n", ":", " ", "1",
          ",", "0", "0", "0", " ", "a", "n", "d", " ", "c", "o", "m", "p", " ",
          "v", "a", "l", "u", "e", ":", " ", "7">>
      [] text = T_NEAR ->
          <<"D", "C", "F", "-", "V", "A", "L", "U", "E", ":", " ", "$", "5", " ", "C", "O",
          "M", "P", "S", "_", "V", "A", "L", "U", "E", ":", " ", "$">>
      [] text = T_TWICE ->
          <<"D", "C", "F", "_", "V", "A", "L", "U", "E", ":", " ", "$", "1", ",", "0", "0",
          "0", " ", "D", "C", "F", "_", "V", "A", "L", "U", "E", ":", " ", "$", "2", ",",
          "0", "0", "0">>
      [] text = T_ECHO ->
          <<"e", "c", "h", "o", " ", "D", "C", "F", "_", "V", "A", "L", "U", "E", ":", " ",
          "$", "5">>
      [] text = T_CMD ->
          <<"p", "y", "t", "h", "o", "n", " ", "d", "c", "f", ".", "p", "y">>
      [] text = T_LS ->
          <<"l", "s", " ", "-", "l", "a">>
      [] OTHER -> <<>>

Lower == <<"a", "b", "c", "d", "e", "f", "g", "h", "i", "j", "k", "l", "m",
           "n", "o", "p", "q", "r", "s", "t", "u", "v", "w", "x", "y", "z">>
Upper == <<"A", "B", "C", "D", "E", "F", "G", "H", "I", "J", "K", "L", "M",
           "N", "O", "P", "Q", "R", "S", "T", "U", "V", "W", "X", "Y", "Z">>
\* the /i flag: letters are compared in upper case
ToUpper(ch) ==
    IF \E k \in DOMAIN Lower : Lower[k] = ch
    THEN Upper[CHOOSE k \in DOMAIN Lower : Lower[k] = ch]
    ELSE ch
Digits == <<"0", "1", "2", "3", "4", "5", "6", "7", "8", "9">>
IsDigit(ch) == \E k \in DOMAIN Digits : Digits[k] = ch
DigitValue(ch) == (CHOOSE k \in DOMAIN Digits : Digits[k] = ch) - 1
\* \s
Spaces == {" ", "\t", "\n", "\r"}
IsSpace(ch) == ch \in Spaces

\* the literal lit (in upper case) is at position i of cs
LitAt(cs, i, lit) ==
    /\ i >= 1
    /\ i + Len(lit) - 1 <= Len(cs)
    /\ \A k \in DOMAIN lit : ToUpper(cs[i + k - 1]) = lit[k]
\* the first position from i on whose character is not in class (greedy * and +)
RunEnd(cs, i, class) ==
    Min({j \in i..(Len(cs) + 1) : j = Len(cs) + 1 \/ cs[j] \notin class})

\* <label>S?[_\s](?:VALUE|VALUATION):\s*\$?([\d,]+) matched at position i, one operator
\* per piece of the expression, each given the position its piece starts at: the
\* positions of the capture group as <<first, last>>, NoMatch when there is no match at i
NoMatch == <<0, 0>>
\* ([\d,]+)
CaptureTo(f, g) == IF g > f THEN <<f, g - 1>> ELSE NoMatch
CaptureAt(cs, f) == CaptureTo(f, RunEnd(cs, f, Range(Digits) \cup {","}))
\* \$?
DollarAt(cs, e) == CaptureAt(cs, IF LitAt(cs, e, <<"$">>) THEN e + 1 ELSE e)
\* :\s*
ColonAt(cs, d) ==
    IF LitAt(cs, d, <<":">>) THEN DollarAt(cs, RunEnd(cs, d + 1, Spaces)) ELSE NoMatch
\* (?:VALUE|VALUATION); VALUE followed by a colon is tried first, and VALUATION cannot
\* match where VALUE does
WordAt(cs, c) ==
    IF LitAt(cs, c, <<"V", "A", "L", "U", "E">>) THEN ColonAt(cs, c + 5)
    ELSE IF LitAt(cs, c, <<"V", "A", "L", "U", "A", "T", "I", "O", "N">>) THEN ColonAt(cs, c + 9)
    ELSE NoMatch
\* [_\s]
SeparatorAt(cs, b) ==
    IF b <= Len(cs) /\ (cs[b] = "_" \/ IsSpace(cs[b])) THEN WordAt(cs, b + 1) ELSE NoMatch
\* S? (COMPS?): an S is consumed when it is there; the separator cannot match an S, so
\* backtracking to the empty alternative never succeeds
OptionalSAt(cs, a, optionalS) ==
    SeparatorAt(cs, IF optionalS /\ LitAt(cs, a, <<"S">>) THEN a + 1 ELSE a)
MarkerAt(cs, i, label, optionalS) ==
    IF LitAt(cs, i, label) THEN OptionalSAt(cs, i + Len(label), optionalS) ELSE NoMatch

\* String.prototype.match without the g flag: the capture of the leftmost match
CaptureText(cs, m) == <<SubSeq(cs, m[1], m[2])>>
Leftmost(cs, ms) ==
    IF ms = {} THEN <<>> ELSE CaptureText(cs, CHOOSE m \in ms : \A n \in ms : m[1] <= n[1])
FirstCapture(cs, label, optionalS) ==
    Leftmost(cs, {MarkerAt(cs, i, label, optionalS) : i \in DOMAIN cs} \ {NoMatch})

\* parseFloat(capture.replace(/,/g, '')): a capture of commas only gives NaN
NaN == -2
RECURSIVE DecimalPrefix(_, _)
DecimalPrefix(ds, n) ==
    IF n = 0 THEN 0 ELSE 10 * DecimalPrefix(ds, n - 1) + DigitValue(ds[n])
DecimalValue(ds) == IF ds = <<>> THEN NaN ELSE DecimalPrefix(ds, Len(ds))
ParseFloatFirstGroup(capture) ==
    DecimalValue(SubSeq(capture, 1, RunEnd(capture, 1, Range(Digits)) - 1))
ParseFloatNoCommas(capture) ==
    DecimalValue(SelectSeq(capture, LAMBDA ch : ch # ","))
\* the value of a match, -1 for no match
MatchValue(m) == IF m = <<>> THEN -1 ELSE ParseFloatNoCommas(m[1])

\* block.text.match(/DCF[_\s](?:VALUE|VALUATION):\s*\$?([\d,]+)/i), then
\* parseFloat(match[1].replace(/,/g, ''))
DcfRegex(text) == MatchValue(FirstCapture(Chars(text), <<"D", "C", "F">>, FALSE))
\* block.text.match(/COMPS?[_\s](?:VALUE|VALUATION):\s*\$?([\d,]+)/i)
CompsRegex(text) == MatchValue(FirstCapture(Chars(text), <<"C", "O", "M", "P">>, TRUE))

\* the texts of the behaviours, and the two matches of each (computed once)
Texts ==
    {T_HELLO, T_DCF, T_COMPS, T_BOTH, T_BOTH_REV, T_LOWER, T_NEAR, T_TWICE, T_CMD, T_LS, T_ECHO}
DcfMatches == [text \in Texts |-> DcfRegex(text)]
CompsMatches == [text \in Texts |-> CompsRegex(text)]
dcfMatch(text) == DcfMatches[text]
compsMatch(text) == CompsMatches[text]

\* command.includes('python')
Includes(cs, sub) ==
    \E i \in 1..(Len(cs) - Len(sub) + 1) : SubSeq(cs, i, i + Len(sub) - 1) = sub
PythonCommands == {text \in Texts : Includes(Chars(text), <<"p", "y", "t", "h", "o", "n">>)}
IncludesPython(command) == command \in PythonCommands

\* ------------------------------------------------------ stream normalizer
\* what handling one content block pushes to the batch, in order; persistAs is the
\* type persistMessage is called with ("" when the message is not persisted)
Emit(type, content, metadata, persistAs) ==
    [type |-> type, content |-> content, metadata |-> metadata, persistAs |-> persistAs]

DcfEmissions(dcfValue) ==
    IF dcfValue # -1
    THEN <<Emit("method_valuation_result",
                "Would you like to save this DCF valuation to the database?",
                Meta("", "", "", -1, dcfValue, "DCF"),
                "method_valuation_result")>>
    ELSE <<>>
CompsEmissions(compsValue) ==
    IF compsValue # -1
    THEN <<Emit("method_valuation_result",
                "Would you like to save this Comparables valuation to the database?",
                Meta("", "", "", -1, compsValue, "Comps"),
                "method_valuation_result")>>
    ELSE <<>>
TextBlockEmissionsCompsFirst(block) ==
    <<Emit("text", block.text, NoMeta, "assistant_text")>>
    \o CompsEmissions(compsMatch(block.text))
    \o DcfEmissions(dcfMatch(block.text))
TextBlockEmissions(block) ==
    <<Emit("text", block.text, NoMeta, "assistant_text")>>
    \o DcfEmissions(dcfMatch(block.text))
    \o CompsEmissions(compsMatch(block.text))

ToolUseBlockEmissionsCodeLast(block) ==
    <<Emit("tool_call", "Using " \o block.name \o " tool", Meta(block.name, "", "", -1, -1, ""),
           "tool_call")>>
    \o <<Emit("executing", "Executing " \o block.name \o "...", Meta(block.name, "", "", -1, -1, ""),
              "executing")>>
    \o (IF block.name = "Bash"
        THEN <<Emit("code", block.command, Meta("Bash", "bash", "", -1, -1, ""), "code_block")>>
        ELSE <<>>)
ToolUseBlockEmissions(block) ==
    <<Emit("tool_call", "Using " \o block.name \o " tool", Meta(block.name, "", "", -1, -1, ""),
           "tool_call")>>
    \o (IF block.name = "Bash" /\ block.command # ""
        THEN <<Emit("code", block.command,
                    Meta("Bash", IF IncludesPython(block.command) THEN "python" ELSE "bash",
                         "", -1, -1, ""),
                    "code_block")>>
        ELSE <<>>)
    \o <<Emit("executing", "Executing " \o block.name \o "...", Meta(block.name, "", "", -1, -1, ""),
              "executing")>>

BlockEmissions(block) ==
    IF block.type = "text" THEN TextBlockEmissions(block)
    ELSE IF block.type = "tool_use" THEN ToolUseBlockEmissions(block)
    ELSE <<>>

\* the final result event: pushed unless some message of the batch has the same content
ResultEmissions(chunk, messages) ==
    IF chunk.text # "" /\ ~\E i \in DOMAIN messages : messages[i].content = chunk.text
    THEN <<Emit("text", chunk.text, NoMeta, "")>>
    ELSE <<>>

ToolResultEmissionsExtracting(chunk) ==
    <<Emit("result", IF chunk.text # "" THEN chunk.text ELSE T_JSON,
           Meta("", "", IF chunk.is_error THEN "false" ELSE "true",
                IF chunk.duration_ms # 0 THEN chunk.duration_ms \div 1000 ELSE -1, -1, ""),
           "result")>>
    \o (IF chunk.text \in Texts THEN DcfEmissions(dcfMatch(chunk.text)) ELSE <<>>)
ToolResultEmissions(chunk) ==
    <<Emit("result", IF chunk.text # "" THEN chunk.text ELSE T_JSON,
           Meta("", "", IF chunk.is_error THEN "false" ELSE "true",
                IF chunk.duration_ms # 0 THEN chunk.duration_ms \div 1000 ELSE -1, -1, ""),
           "result")>>

ChunkEmissionsOtherAsResult(chunk, messages) ==
    IF chunk.type = "assistant"
    THEN Flatten([i \in DOMAIN chunk.blocks |-> BlockEmissions(chunk.blocks[i])])
    ELSE IF chunk.type = "result" THEN ResultEmissions(chunk, messages)
    ELSE ToolResultEmissions(chunk)
ChunkEmissions(chunk, messages) ==
    IF chunk.type = "assistant"
    THEN Flatten([i \in DOMAIN chunk.blocks |-> BlockEmissions(chunk.blocks[i])])
    ELSE IF chunk.type = "result" THEN ResultEmissions(chunk, messages)
    ELSE IF chunk.type = "tool_result" THEN ToolResultEmissions(chunk)
    ELSE <<>>

AgentMessage(e) == [type |-> e.type, content |-> e.content, metadata |-> e.metadata]
ToBatch(es) == [i \in DOMAIN es |-> AgentMessage(es[i])]

FallbackMessage ==
    [type |-> "text", content |-> "Response received but could not parse message content.",
     metadata |-> NoMeta]
ErrorMessage ==
    [type |-> "text", content |-> "Error: the stream failed", metadata |-> NoMeta]

\* persistMessage: createMessage when there is a thread, a failure is logged and swallowed.
\* fail marks an injected write failure.
persistMessage(db, threadId, type, content, metadata, ts, fail) ==
    IF threadId # 0 /\ ~fail /\ ThreadExists(db, threadId)
    THEN createMessage(db, threadId, type, content, metadata, ts)
    ELSE db

\* the persistMessage calls of one chunk, in the order of the emissions; the write
\* number failAt fails (0: none)
RECURSIVE PersistEmissionsLastFirst(_, _, _, _, _, _)
PersistEmissionsLastFirst(db, threadId, es, k, ts, failAt) ==
    IF es = <<>> THEN db
    ELSE LET e == es[Len(es)]
             rest == SubSeq(es, 1, Len(es) - 1)
         IN IF e.persistAs = ""
            THEN PersistEmissionsLastFirst(db, threadId, rest, k, ts, failAt)
            ELSE PersistEmissionsLastFirst(
                     persistMessage(db, threadId, e.persistAs, e.content, e.metadata, ts,
                                    k = failAt),
                     threadId, rest, k + 1, ts, failAt)
RECURSIVE PersistEmissionsUntilFailure(_, _, _, _, _, _)
PersistEmissionsUntilFailure(db, threadId, es, k, ts, failAt) ==
    IF es = <<>> THEN db
    ELSE LET e == Head(es)
         IN IF e.persistAs = ""
            THEN PersistEmissionsUntilFailure(db, threadId, Tail(es), k, ts, failAt)
            ELSE IF k = failAt THEN db
            ELSE PersistEmissionsUntilFailure(
                     persistMessage(db, threadId, e.persistAs, e.content, e.metadata, ts, FALSE),
                     threadId, Tail(es), k + 1, ts, failAt)
RECURSIVE PersistEmissions(_, _, _, _, _, _)
PersistEmissions(db, threadId, es, k, ts, failAt) ==
    IF es = <<>> THEN db
    ELSE LET e == Head(es)
         IN IF e.persistAs = ""
            THEN PersistEmissions(db, threadId, Tail(es), k, ts, failAt)
            ELSE PersistEmissions(
                     persistMessage(db, threadId, e.persistAs, e.content, e.metadata, ts,
                                    k = failAt),
                     threadId, Tail(es), k + 1, ts, failAt)

NumPersisted(es) == Cardinality({i \in DOMAIN es : es[i].persistAs # ""})


\* --------------------------------------------------- conversation objects
NoObj == [history |-> <<>>, threadId |-> -1]
ObjIds == 1..(Cardinality(Projects) + Cardinality(Calls))

\* history lines: `User: ${content}` and `Assistant: ${parts joined by \n}`
UserLine(content) == [role |-> "User", parts |-> <<content>>]
AssistantLine(parts) == [role |-> "Assistant", parts |-> parts]

\* a call slot: pc, the call (op) and the function whose turn runs (phase), the locals
\* of the source (restored, conversation, threadId, messages, done), and what is
\* recorded about the call: the events received in the turn, a log write failed, the project was cleared meanwhile,
\* the number of query() invocations
IdleCall ==
    [pc |-> "idle", op |-> "", phase |-> "", project |-> 0, hasData |-> FALSE,
     restored |-> 0, restoredHist |-> <<>>, conv |-> 0, threadId |-> 0,
     messages |-> <<>>, done |-> FALSE, received |-> <<>>,
     failed |-> FALSE, cleared |-> FALSE, nq |-> 0]

NoRet == [kind |-> "none", op |-> "", project |-> 0, threadId |-> 0, messages |-> <<>>,
          done |-> FALSE, failed |-> FALSE, cleared |-> FALSE, nq |-> 0]
Returned(cl, messages, done) ==
    [kind |-> "ok", op |-> cl.op, project |-> cl.project, threadId |-> cl.threadId,
     messages |-> messages, done |-> done, failed |-> cl.failed, cleared |-> cl.cleared,
     nq |-> cl.nq]
Thrown(cl) ==
    [kind |-> "throw", op |-> cl.op, project |-> cl.project, threadId |-> cl.threadId,
     messages |-> <<>>, done |-> FALSE, failed |-> cl.failed, cleared |-> cl.cleared,
     nq |-> cl.nq]
NoRets == [c \in Calls |-> NoRet]

\* objects no longer referenced by the map or by a running call are collected
Referenced(cv, cs) == {cv[p] : p \in Projects} \cup {cs[c].conv : c \in Calls}
Collect(ob, cv, cs) == [o \in ObjIds |-> IF o \in Referenced(cv, cs) THEN ob[o] ELSE NoObj]
NewObj(cv, cs) == Min(ObjIds \ Referenced(cv, cs))

\* the microtask hops: positions a call passes before the event loop takes the next
\* event of a stream
HopPcs == {"start_restored", "send_restored", "send_after_start"}
NoHop == \A c \in Calls : calls[c].pc \notin HopPcs
AllIdle == \A c \in Calls : calls[c].pc = "idle"
FreeSlot(c) == calls[c].pc = "idle" /\ \A d \in Calls : d < c => calls[d].pc # "idle"

\* restoreConversation, lines 85-94: the history rebuilt from the messages of a thread
RestoreHistoryUsersOnly(db, t) ==
    LET msgs == getMessagesByThread(db, t)
        line(m) == IF m.type = "user" THEN <<UserLine(m.content)>> ELSE <<>>
    IN Flatten([i \in DOMAIN msgs |-> line(msgs[i])])
RestoreHistoryEveryType(db, t) ==
    LET msgs == getMessagesByThread(db, t)
        line(m) == IF m.type = "user" THEN <<UserLine(m.content)>>
                   ELSE <<AssistantLine(<<m.content>>)>>
    IN Flatten([i \in DOMAIN msgs |-> line(msgs[i])])
RestoreHistory(db, t) ==
    LET msgs == getMessagesByThread(db, t)
        line(m) == IF m.type = "user" THEN <<UserLine(m.content)>>
                   ELSE IF m.type = "assistant_text" THEN <<AssistantLine(<<m.content>>)>>
                   ELSE <<>>
    IN Flatten([i \in DOMAIN msgs |-> line(msgs[i])])

\* restoreConversation, lines 74-78: the thread ids it may find; 0 stands for null
RestoreCandidatesNone(db, p) == {0}
RestoreCandidates(db, p) ==
    IF getActiveThreadByProject(db, p) = {} THEN {0} ELSE getActiveThreadByProject(db, p)

Commit(db, cv, ob, cs, rt) ==
    /\ database' = Normalize(db)
    /\ conversations' = cv
    /\ objs' = Collect(ob, cv, cs)
    /\ calls' = cs
    /\ ret' = rt
    /\ nQuery' = nQuery + Cardinality({c \in Calls : cs[c].nq # calls[c].nq /\ cs[c].nq # 0})
    /\ UNCHANGED <<methods, panel>>

\* runQuery up to its first await of the stream (lines 246-271): the thread id is read
\* from the map entry of the project, the batch starts empty, query() is invoked
EnterRunQueryKeepBatch(cl, phase, cv, ob) ==
    [cl EXCEPT !.pc = "stream", !.phase = phase,
               !.threadId = IF cv[cl.project] # 0 THEN ob[cv[cl.project]].threadId ELSE 0,
               !.done = FALSE, !.received = <<>>, !.nq = @ + 1]
EnterRunQuery(cl, phase, cv, ob) ==
    [cl EXCEPT !.pc = "stream", !.phase = phase,
               !.threadId = IF cv[cl.project] # 0 THEN ob[cv[cl.project]].threadId ELSE 0,
               !.messages = <<>>, !.done = FALSE, !.received = <<>>, !.nq = @ + 1]

\* sendMessage from the point where the conversation object is known (lines 213-231):
\* persist the user message (a failure is logged and swallowed), then runQuery
SendBodyNoUserMessage(c, cl, db, cv, ob, ts, fail, rt) ==
    LET o == cv[cl.project]
        cl2 == EnterRunQuery([cl EXCEPT !.conv = o], "send", cv, ob)
    IN /\ ~fail
       /\ ts = db.now
       /\ Commit(db, cv, ob, [calls EXCEPT ![c] = cl2], rt)
SendBody(c, cl, db, cv, ob, ts, fail, rt) ==
    LET o == cv[cl.project]
        canWrite == ob[o].threadId # 0 /\ ThreadExists(db, ob[o].threadId)
        db2 == IF canWrite /\ ~fail
               THEN createMessage(db, ob[o].threadId, "user", T_USER, NoMeta, ts)
               ELSE db
        cl2 == EnterRunQuery([cl EXCEPT !.conv = o, !.failed = @ \/ fail], "send", cv, ob)
    IN /\ fail => canWrite
       /\ ~canWrite => ts = db.now
       /\ Commit(db2, cv, ob, [calls EXCEPT ![c] = cl2], rt)

\* sendMessage after the nested startValuation has returned (lines 205-209)
SendAfterStart(c, cl, db, cv, ob, ts, fail) ==
    IF cv[cl.project] = 0
    THEN /\ ~fail
         /\ ts = db.now
         /\ Commit(db, cv, ob, [calls EXCEPT ![c] = IdleCall], [ret EXCEPT ![c] = Thrown(cl)])
    ELSE SendBody(c, cl, db, cv, ob, ts, fail, ret)

\* startValuation returns `messages, done` while a stream event is being handled: to its
\* caller, or into the sendMessage that awaits it (no other code runs in between)
StartReturns(c, cl, db, cv, ob, messages, done, ts, fail) ==
    IF cl.op = "start"
    THEN /\ ~fail
         /\ ts = db.now
         /\ Commit(db, cv, ob, [calls EXCEPT ![c] = IdleCall],
                   [ret EXCEPT ![c] = Returned(cl, messages, done)])
    ELSE SendAfterStart(c, cl, db, cv, ob, ts, fail)

\* ------------------------------------------------------------ startValuation
\* lines 111-127: the map lookup, then restoreConversation up to its return
StartEntryNoLookup(c, cl, rt) ==
    \E t \in RestoreCandidates(database, cl.project) :
        Commit(database, conversations, objs,
               [calls EXCEPT ![c] = [cl EXCEPT !.pc = "start_restored", !.phase = "start",
                                               !.restored = t,
                                               !.restoredHist = RestoreHistory(database, t)]],
               rt)
StartEntry(c, cl, rt) ==
    IF conversations[cl.project] # 0
    THEN IF cl.op = "start"
         THEN Commit(database, conversations, objs, [calls EXCEPT ![c] = IdleCall],
                     [rt EXCEPT ![c] = Returned(cl, <<>>, TRUE)])
         ELSE Commit(database, conversations, objs,
                     [calls EXCEPT ![c] = [cl EXCEPT !.pc = "send_after_start"]], rt)
    ELSE \E t \in RestoreCandidates(database, cl.project) :
            Commit(database, conversations, objs,
                   [calls EXCEPT ![c] = [cl EXCEPT !.pc = "start_restored", !.phase = "start",
                                                   !.restored = t,
                                                   !.restoredHist = RestoreHistory(database, t)]],
                   rt)

startValuation(c, p) ==
    /\ FreeSlot(c)
    /\ StartEntry(c, [IdleCall EXCEPT !.op = "start", !.phase = "start", !.project = p,
                                      !.hasData = TRUE], NoRets)

\* lines 129-170: register the restored conversation, or create a thread (a failure is
\* logged and leaves the conversation without one) and run the opening turn
StartResume(c, fail) ==
    LET cl == calls[c]
        o == NewObj(conversations, calls)
    IN /\ cl.pc = "start_restored"
       /\ IF cl.restored # 0
          THEN LET ob == [objs EXCEPT ![o] = [history |-> cl.restoredHist,
                                               threadId |-> cl.restored]]
                   cv == [conversations EXCEPT ![cl.project] = o]
               IN /\ ~fail
                  /\ IF cl.op = "start"
                     THEN Commit(database, cv, ob, [calls EXCEPT ![c] = IdleCall],
                                 [ret EXCEPT ![c] = Returned(cl, <<>>, TRUE)])
                     ELSE Commit(database, cv, ob,
                                 [calls EXCEPT ![c] = [cl EXCEPT !.pc = "send_after_start"]],
                                 ret)
          ELSE \E ts \in Ticks(database) :
               LET db == IF fail THEN database ELSE createThread(database, cl.project, ts)
                   ob == [objs EXCEPT ![o] = [history |-> <<>>,
                                               threadId |-> IF fail THEN 0 ELSE Len(db.threads)]]
                   cv == [conversations EXCEPT ![cl.project] = o]
               IN /\ fail => ts = database.now
                  /\ Commit(db, cv, ob,
                            [calls EXCEPT ![c] =
                                EnterRunQuery([cl EXCEPT !.failed = @ \/ fail], "start", cv, ob)],
                            ret)

\* --------------------------------------------------------------- sendMessage
\* lines 178-190 (and on to 231 when the conversation is in memory)
sendMessage(c, p, hasData, fail) ==
    LET cl == [IdleCall EXCEPT !.op = "send", !.phase = "send", !.project = p,
                               !.hasData = hasData]
    IN /\ FreeSlot(c)
       /\ IF conversations[p] # 0
          THEN \E ts \in Ticks(database) :
                     SendBody(c, cl, database, conversations, objs, ts, fail, NoRets)
          ELSE IF ~hasData
          THEN /\ ~fail
               /\ Commit(database, conversations, objs, calls,
                         [NoRets EXCEPT ![c] = Thrown(cl)])
          ELSE \E t \in RestoreCandidates(database, p) :
                  /\ ~fail
                  /\ Commit(database, conversations, objs,
                            [calls EXCEPT ![c] = [cl EXCEPT !.pc = "send_restored",
                                                            !.restored = t,
                                                            !.restoredHist =
                                                                RestoreHistory(database, t)]],
                            NoRets)

\* lines 192-204: the restored conversation is registered and the turn runs, or
\* startValuation is called
SendResume(c, fail) ==
    LET cl == calls[c]
        o == NewObj(conversations, calls)
    IN /\ cl.pc = "send_restored"
       /\ IF cl.restored # 0
          THEN LET ob == [objs EXCEPT ![o] = [history |-> cl.restoredHist,
                                               threadId |-> cl.restored]]
                   cv == [conversations EXCEPT ![cl.project] = o]
               IN \E ts \in Ticks(database) :
                     SendBody(c, cl, database, cv, ob, ts, fail, ret)
          ELSE ~fail /\ StartEntry(c, cl, ret)

\* lines 205-231, reached after a nested startValuation that did not run a turn
SendAfterStartStep(c, fail) ==
    /\ calls[c].pc = "send_after_start"
    /\ \E ts \in Ticks(database) :
          SendAfterStart(c, calls[c], database, conversations, objs, ts, fail)

\* ------------------------------------------------------------------ runQuery
\* sendMessage, lines 233-238: the turn is stored in the history
HistoryAfterTurn(history, messages) ==
    history \o <<UserLine(T_USER)>>
    \o (IF Len(messages) > 0
        THEN <<AssistantLine([i \in DOMAIN messages |-> messages[i].content])>>
        ELSE <<>>)

\* lines 448-453 and what the caller does with the response: startValuation returns it
\* (line 172); sendMessage stores the turn in the history and returns it (lines 233-240)
RunQueryReturnsRegistering(c, db, messages, done, ts, fail) ==
    LET cl == calls[c]
    IN IF cl.phase = "start"
       THEN StartReturns(c, cl, db, conversations, objs, messages, done, ts, fail)
       ELSE /\ ~fail
            /\ ts = db.now
            /\ Commit(db, [conversations EXCEPT ![cl.project] = cl.conv],
                      [objs EXCEPT ![cl.conv].history = HistoryAfterTurn(@, messages)],
                      [calls EXCEPT ![c] = IdleCall],
                      [ret EXCEPT ![c] = Returned(cl, messages, done)])
RunQueryReturns(c, db, messages, done, ts, fail) ==
    LET cl == calls[c]
    IN IF cl.phase = "start"
       THEN StartReturns(c, cl, db, conversations, objs, messages, done, ts, fail)
       ELSE /\ ~fail
            /\ ts = db.now
            /\ Commit(db, conversations,
                      [objs EXCEPT ![cl.conv].history = HistoryAfterTurn(@, messages)],
                      [calls EXCEPT ![c] = IdleCall],
                      [ret EXCEPT ![c] = Returned(cl, messages, done)])

\* lines 271-412: one event of the stream is handled; failAt is the write that fails
StreamChunkDoneOnAnyResult(c, chunk, failAt) ==
    LET cl == calls[c]
        es == ChunkEmissions(chunk, cl.messages)
        canWrite == cl.threadId # 0 /\ ThreadExists(database, cl.threadId)
                    /\ NumPersisted(es) > 0
    IN /\ cl.pc = "stream"
       /\ NoHop
       /\ failAt \in 0..(IF canWrite THEN NumPersisted(es) ELSE 0)
       /\ \E ts \in (IF canWrite THEN Ticks(database) ELSE {database.now}) :
             Commit(PersistEmissions(database, cl.threadId, es, 1, ts, failAt),
                    conversations, objs,
                    [calls EXCEPT ![c] = [cl EXCEPT !.messages = @ \o ToBatch(es),
                                                    !.received = Append(@, chunk),
                                                    !.done = @ \/ chunk.type \in {"result", "tool_result"},
                                                    !.failed = @ \/ failAt # 0]],
                    ret)
StreamChunk(c, chunk, failAt) ==
    LET cl == calls[c]
        es == ChunkEmissions(chunk, cl.messages)
        canWrite == cl.threadId # 0 /\ ThreadExists(database, cl.threadId)
                    /\ NumPersisted(es) > 0
    IN /\ cl.pc = "stream"
       /\ NoHop
       /\ failAt \in 0..(IF canWrite THEN NumPersisted(es) ELSE 0)
       /\ \E ts \in (IF canWrite THEN Ticks(database) ELSE {database.now}) :
             Commit(PersistEmissions(database, cl.threadId, es, 1, ts, failAt),
                    conversations, objs,
                    [calls EXCEPT ![c] = [cl EXCEPT !.messages = @ \o ToBatch(es),
                                                    !.received = Append(@, chunk),
                                                    !.done = @ \/ chunk.type = "result",
                                                    !.failed = @ \/ failAt # 0]],
                    ret)

\* lines 414-422: the stream ends
StreamEndNoFallback(c, fail) ==
    LET cl == calls[c]
    IN /\ cl.pc = "stream"
       /\ NoHop
       /\ \E ts \in Ticks(database) :
             RunQueryReturns(c, database, cl.messages, cl.done, ts, fail)
StreamEnd(c, fail) ==
    LET cl == calls[c]
        messages == IF Len(cl.messages) = 0 THEN <<FallbackMessage>> ELSE cl.messages
    IN /\ cl.pc = "stream"
       /\ NoHop
       /\ \E ts \in Ticks(database) :
             RunQueryReturns(c, database, messages, cl.done, ts, fail)

\* lines 424-446: draining the stream throws
StreamThrow(c, fail) ==
    LET cl == calls[c]
    IN /\ cl.pc = "stream"
       /\ NoHop
       /\ \E ts \in Ticks(database) :
             RunQueryReturns(c, database, cl.messages \o <<ErrorMessage>>, cl.done, ts, fail)

\* --------------------------------------------------------- clearConversation
MarkCleared(cs, p) ==
    [c \in Calls |-> IF cs[c].project = p THEN [cs[c] EXCEPT !.cleared = TRUE] ELSE cs[c]]

clearConversationAll(p) ==
    Commit(database, [q \in Projects |-> 0], objs, MarkCleared(calls, p), NoRets)
clearConversation(p) ==
    Commit(database, [conversations EXCEPT ![p] = 0], objs, MarkCleared(calls, p), NoRets)

\* ------------------------------------- thread handlers (threads:archiveThread, :deleteThread)
ArchiveThread(t) ==
    /\ ThreadExists(database, t)
    /\ database.threads[t].status = "active"
    /\ Commit(archiveThread(database, t), conversations, objs, calls, NoRets)

DeleteThread(t) ==
    /\ ThreadExists(database, t)
    /\ Commit(deleteThread(database, t), conversations, objs, calls, NoRets)

\* ---------------------------------------------------------------- behaviours
\* ------------------------------------------------------------ project panel
\* ProjectDetail.tsx: the methods of the project and the weighted (MGX) valuation.
\* A weight is held in hundredths (the strings '0.6', '0.60' are 60); a value that may
\* be NULL or null is <<>> or <<v>>; the weighted valuation is held in hundredths of
\* the currency unit.
MethodTypes == {"DCF", "Comps"}
MethodValues == {0, -5, 2500000, 3000000}
MethodWeights == {0, 60, 100}
Deltas == {5, -5}
Null == <<>>
Some(v) == <<v>>

MethodRow(method_type, weight, calculated_value) ==
    [method_type |-> method_type, weight |-> weight, calculated_value |-> calculated_value]

\* methods.find(m => m.method_type === type)?.calculated_value || 0
calculatedValueOr0(ms, type) ==
    IF \E i \in DOMAIN ms : ms[i].method_type = type
    THEN LET m == ms[CHOOSE i \in DOMAIN ms :
                        /\ ms[i].method_type = type
                        /\ \A j \in 1..(i - 1) : ms[j].method_type # type]
         IN IF m.calculated_value = Null THEN 0 ELSE m.calculated_value[1]
    ELSE 0

\* the body of the effect of lines 44-60
WeightedAlways(dcfValue, dcfW, compsValue, compsW) ==
    Some((dcfValue * dcfW) + (compsValue * compsW))
WeightedSwapped(dcfValue, dcfW, compsValue, compsW) ==
    IF dcfValue > 0 \/ compsValue > 0
    THEN Some((dcfValue * compsW) + (compsValue * dcfW))
    ELSE Null
Weighted(dcfValue, dcfW, compsValue, compsW) ==
    IF dcfValue > 0 \/ compsValue > 0
    THEN Some((dcfValue * dcfW) + (compsValue * compsW))
    ELSE Null
mgxValuationOf(ms, dcfWeight, compsWeight) ==
    Weighted(calculatedValueOr0(ms, "DCF"), dcfWeight,
             calculatedValueOr0(ms, "Comps"), compsWeight)

\* no loadMethods call is running
NoLoad == [pc |-> "idle", rows |-> <<>>, k |-> 0]

\* a state setter schedules the effect when a dependency changed
SetPanel(pn, changed) ==
    /\ panel' = [pn EXCEPT !.effectPending = @ \/ changed]
    /\ UNCHANGED <<database, conversations, objs, calls, ret, nQuery, methods>>

\* loadMethods is called (on mount, and after an agent call or a save)
loadMethods ==
    /\ panel.load.pc = "idle"
    /\ SetPanel([panel EXCEPT !.load = [pc |-> "getByProject", rows |-> <<>>, k |-> 0]], FALSE)

\* methods:getByProject runs in the main process
getMethodsByProject ==
    /\ panel.load.pc = "getByProject"
    /\ SetPanel([panel EXCEPT !.load = [pc |-> "loaded", rows |-> methods, k |-> 0]], FALSE)

\* line 97: setMethods(loadedMethods); the loop then awaits the metrics of each method
SetMethods ==
    /\ panel.load.pc = "loaded"
    /\ SetPanel([panel EXCEPT !.methods = panel.load.rows,
                              !.load = IF panel.load.rows = <<>> THEN NoLoad
                                       ELSE [@ EXCEPT !.pc = "getByMethod", !.k = 1]],
                TRUE)

\* lines 109-125: the metrics of a method arrive, its weight goes to the form
SetWeightOfMethod ==
    LET ld == panel.load
        m == ld.rows[ld.k]
        next == IF ld.k = Len(ld.rows) THEN NoLoad ELSE [ld EXCEPT !.k = @ + 1]
    IN /\ ld.pc = "getByMethod"
       /\ SetPanel([panel EXCEPT !.dcfWeight = IF m.method_type = "DCF" THEN m.weight ELSE @,
                                 !.compsWeight = IF m.method_type = "Comps" THEN m.weight ELSE @,
                                 !.load = next],
                   \/ m.method_type = "DCF" /\ m.weight # panel.dcfWeight
                   \/ m.method_type = "Comps" /\ m.weight # panel.compsWeight)

\* lines 143-151; parseFloat(dcfWeight) || 0.6
handleDcfWeightChangeNoEffect(delta) ==
    LET currentDcf == IF panel.dcfWeight = 0 THEN 60 ELSE panel.dcfWeight
        newDcf == Max({0, Min({100, currentDcf + delta})})
        newComps == 100 - newDcf
    IN /\ panel.clicks < MaxClicks
       /\ SetPanel([panel EXCEPT !.dcfWeight = newDcf, !.compsWeight = newComps,
                                 !.clicks = @ + 1],
                   FALSE)
handleDcfWeightChange(delta) ==
    LET currentDcf == IF panel.dcfWeight = 0 THEN 60 ELSE panel.dcfWeight
        newDcf == Max({0, Min({100, currentDcf + delta})})
        newComps == 100 - newDcf
    IN /\ panel.clicks < MaxClicks
       /\ SetPanel([panel EXCEPT !.dcfWeight = newDcf, !.compsWeight = newComps,
                                 !.clicks = @ + 1],
                   newDcf # panel.dcfWeight \/ newComps # panel.compsWeight)

\* lines 153-161; parseFloat(compsWeight) || 0.4
handleCompsWeightChangeNoBalance(delta) ==
    LET currentComps == IF panel.compsWeight = 0 THEN 40 ELSE panel.compsWeight
        newComps == Max({0, Min({100, currentComps + delta})})
    IN /\ panel.clicks < MaxClicks
       /\ SetPanel([panel EXCEPT !.compsWeight = newComps, !.clicks = @ + 1],
                   newComps # panel.compsWeight)
handleCompsWeightChange(delta) ==
    LET currentComps == IF panel.compsWeight = 0 THEN 40 ELSE panel.compsWeight
        newComps == Max({0, Min({100, currentComps + delta})})
        newDcf == 100 - newComps
    IN /\ panel.clicks < MaxClicks
       /\ SetPanel([panel EXCEPT !.dcfWeight = newDcf, !.compsWeight = newComps,
                                 !.clicks = @ + 1],
                   newDcf # panel.dcfWeight \/ newComps # panel.compsWeight)

\* lines 44-60: the effect with dependencies [methods, dcfWeight, compsWeight] runs
MgxEffect ==
    /\ panel.effectPending
    /\ panel' = [panel EXCEPT !.mgxValuation = mgxValuationOf(panel.methods, panel.dcfWeight,
                                                              panel.compsWeight),
                              !.effectPending = FALSE]
    /\ UNCHANGED <<database, conversations, objs, calls, ret, nQuery, methods>>

\* ------------------------------------------------------------ agent terminal
\* AgentTerminal (part_001) and its two handlers in ProjectDetail.tsx. isExecuting is the
\* isProcessing prop; messages is messages.length; handlers holds the running
\* activations of handleRunAgentValuation and handleSendMessage, each either awaiting the
\* agent request or the loadMethods that follows it. A state update made in an event
\* handler is rendered before the next event is dispatched.
Inputs == {"", " ", T_USER}
trim(input) == IF input = " " THEN "" ELSE input
\* what an agent request ends with: a response, success = false, or a rejected promise
Outcomes == {"ok", "fail", "throw"}
\* the number of messages in the batch of a response
BatchSizes == {0, 2}

Handler(op, stage) == [op |-> op, stage |-> stage]
RemoveAt(seq, i) == SubSeq(seq, 1, i - 1) \o SubSeq(seq, i + 1, Len(seq))

\* the input field (disabled while isProcessing, part_001 line 145)
setInput(text) ==
    /\ ~panel.isExecuting
    /\ text # panel.input
    /\ SetPanel([panel EXCEPT !.input = text], FALSE)

\* handleSend (part_001 39-45) and handleSendMessage up to its await (ProjectDetail 290-298)
handleSendUnguarded ==
    /\ panel.requests < MaxRequests
    /\ trim(panel.input) # ""
    /\ SetPanel([panel EXCEPT !.input = "", !.messages = @ + 1, !.isExecuting = TRUE,
                              !.handlers = Append(@, Handler("send", "request")),
                              !.requests = @ + 1],
                FALSE)
handleSend ==
    /\ panel.requests < MaxRequests
    /\ ~(trim(panel.input) = "" \/ panel.isExecuting)
    /\ SetPanel([panel EXCEPT !.input = "", !.messages = @ + 1, !.isExecuting = TRUE,
                              !.handlers = Append(@, Handler("send", "request")),
                              !.requests = @ + 1],
                FALSE)

\* the START AGENT button (part_001 88-98) and handleRunAgentValuation up to its await
\* (ProjectDetail 267-272)
handleRunAgentValuation ==
    /\ panel.requests < MaxRequests
    /\ ~(panel.isExecuting \/ panel.messages > 0)
    /\ SetPanel([panel EXCEPT !.isExecuting = TRUE,
                              !.handlers = Append(@, Handler("start", "request")),
                              !.requests = @ + 1],
                FALSE)

\* the request of activation i ends (ProjectDetail 274-286, 300-312): a response is shown
\* and loadMethods is awaited; success = false or a rejection adds an error message and
\* runs the finally block
AgentResponds(i, outcome, size) ==
    LET h == panel.handlers[i]
    IN /\ h.stage = "request"
       /\ IF outcome = "ok"
          THEN /\ panel.load = NoLoad
               /\ SetPanel([panel EXCEPT !.messages = @ + size,
                                         !.handlers[i].stage = "reload",
                                         !.load = [pc |-> "getByProject", rows |-> <<>>,
                                                   k |-> 0]],
                           FALSE)
          ELSE /\ size = 0
               /\ SetPanel([panel EXCEPT !.messages = @ + 1,
                                         !.handlers = RemoveAt(@, i),
                                         !.isExecuting = FALSE],
                           FALSE)

\* loadMethods has returned to activation i: the finally block (lines 285-287, 311-313)
HandlerFinally(i) ==
    /\ panel.handlers[i].stage = "reload"
    /\ panel.load = NoLoad
    /\ SetPanel([panel EXCEPT !.handlers = RemoveAt(@, i), !.isExecuting = FALSE], FALSE)

\* createMethod (DatabaseViewer.tsx 310-322), by a save of the form or by the agent
createMethod(methodType, weight) ==
    /\ panel.writes < MaxMethodWrites
    /\ \A i \in DOMAIN methods : methods[i].method_type # methodType
    /\ methods' = Append(methods, MethodRow(methodType, weight, Null))
    /\ panel' = [panel EXCEPT !.writes = @ + 1]
    /\ UNCHANGED <<database, conversations, objs, calls, ret, nQuery>>

\* updateMethod with a calculated_value (DatabaseViewer.tsx 344-372)
updateMethod(i, calculated_value) ==
    /\ panel.writes < MaxMethodWrites
    /\ methods' = [methods EXCEPT ![i].calculated_value = Some(calculated_value)]
    /\ panel' = [panel EXCEPT !.writes = @ + 1]
    /\ UNCHANGED <<database, conversations, objs, calls, ret, nQuery>>

\* the component after its first render: the useState defaults, both mount effects due
InitPanel ==
    [methods |-> <<>>, dcfWeight |-> 60, compsWeight |-> 40, mgxValuation |-> Null,
     effectPending |-> TRUE, load |-> NoLoad, clicks |-> 0, writes |-> 0,
     isExecuting |-> FALSE, messages |-> 0, input |-> "", handlers |-> <<>>, requests |-> 0]

\* the methods table when the panel opens: a new project, or a project whose form was
\* saved before (saveData creates both methods, lines 204-243)
OpenedMethods == {<<>>, <<MethodRow("DCF", 60, Null), MethodRow("Comps", 40, Null)>>}

InitAgent ==
    /\ database = [threads |-> <<>>, messages |-> <<>>, now |-> 1]
    /\ conversations = [p \in Projects |-> 0]
    /\ objs = [o \in ObjIds |-> NoObj]
    /\ calls = [c \in Calls |-> IdleCall]
    /\ ret = NoRets
    /\ nQuery = 0
Init ==
    /\ InitAgent
    /\ methods = <<>>
    /\ panel = InitPanel
InitOpened ==
    /\ InitAgent
    /\ methods \in OpenedMethods
    /\ panel = InitPanel

\* the requests and the steps of the calls; Serial: a request is made only when no call
\* is running; Q bounds the query() invocations
CallSteps(Projs, Serial, Streams, Fails, FailAts, Q) ==
    \/ \E c \in Calls, p \in Projs : (Serial => AllIdle) /\ startValuation(c, p)
    \/ \E c \in Calls, p \in Projs, hasData \in BOOLEAN, fail \in Fails :
          (Serial => AllIdle) /\ sendMessage(c, p, hasData, fail) /\ nQuery' <= Q
    \/ \E c \in Calls, fail \in Fails : StartResume(c, fail) /\ nQuery' <= Q
    \/ \E c \in Calls, fail \in Fails : SendResume(c, fail) /\ nQuery' <= Q
    \/ \E c \in Calls, failAt \in FailAts :
          \E chunk \in NextChunks(Streams, calls[c].received) : StreamChunk(c, chunk, failAt)
    \/ \E c \in Calls, fail \in Fails : StreamEnd(c, fail) /\ nQuery' <= Q
    \/ \E c \in Calls, fail \in Fails : StreamThrow(c, fail) /\ nQuery' <= Q
    \/ \E p \in Projs : clearConversation(p)

\* a sendMessage goes on after a nested startValuation that found the conversation another
\* call had registered meanwhile
RaceSteps(Fails, Q) ==
    \E c \in Calls, fail \in Fails : SendAfterStartStep(c, fail) /\ nQuery' <= Q

ThreadSteps ==
    \/ \E t \in ThreadIds(database) : ArchiveThread(t)
    \/ \E t \in ThreadIds(database) : DeleteThread(t)

\* calls on one project may be issued while others are in flight
Next ==
    \/ CallSteps({1}, FALSE, ShortStreams, {FALSE}, {0}, MaxQueries)
    \/ RaceSteps({FALSE}, MaxQueries)
    \/ ThreadSteps

Spec == Init /\ [][Next]_vars

\* one call at a time: the caller awaits each startValuation / sendMessage
NextSerial == CallSteps({1}, TRUE, SessionStreams, {FALSE}, {0}, MaxTurns) \/ ThreadSteps

SpecSerial == Init /\ [][NextSerial]_vars

\* one call at a time, on two projects; threads are archived but not deleted
NextProjects ==
    \/ CallSteps(Projects, TRUE, ShortStreams, {FALSE}, {0}, MaxQueries)
    \/ \E t \in ThreadIds(database) : ArchiveThread(t)

SpecProjects == Init /\ [][NextProjects]_vars

\* one call at a time on one project, with the streams of the turn-level behaviours
NextTurn == CallSteps({1}, TRUE, TurnStreams, {FALSE}, {0}, MaxQueries) \/ ThreadSteps

SpecTurn == Init /\ [][NextTurn]_vars

\* one call at a time on one project; a createMessage of persistMessage may fail, at most
\* one per event
FailStreams == { <<C_DcfBash, C_ToolResult, C_ResultOut>> }
FailWrites == 0..3
NextFail == CallSteps({1}, TRUE, FailStreams, {FALSE}, FailWrites, MaxFailTurns) \/ ThreadSteps

SpecFail == Init /\ [][NextFail]_vars

\* the project panel: reloads of the methods, weight buttons, the effect, and writes to
\* the methods table
NextPanel ==
    \/ loadMethods
    \/ getMethodsByProject
    \/ SetMethods
    \/ SetWeightOfMethod
    \/ \E delta \in Deltas : handleDcfWeightChange(delta)
    \/ \E delta \in Deltas : handleCompsWeightChange(delta)
    \/ MgxEffect
    \/ \E methodType \in MethodTypes, weight \in MethodWeights : createMethod(methodType, weight)
    \/ \E i \in DOMAIN methods, v \in MethodValues : updateMethod(i, v)

SpecPanel == InitOpened /\ [][NextPanel]_vars

\* the agent terminal of the panel: typing, SEND, START AGENT, the end of a request and
\* the reload of the methods that follows it
NextTerminal ==
    \/ \E text \in Inputs : setInput(text)
    \/ handleSend
    \/ handleRunAgentValuation
    \/ \E i \in DOMAIN panel.handlers, outcome \in Outcomes, size \in BatchSizes :
          AgentResponds(i, outcome, size)
    \/ \E i \in DOMAIN panel.handlers : HandlerFinally(i)
    \/ getMethodsByProject
    \/ SetMethods
    \/ SetWeightOfMethod
    \/ MgxEffect

SpecTerminal == InitOpened /\ [][NextTerminal]_vars

\* one call at a time on one project, with the streams of the block-level behaviours
NextBlocks == CallSteps({1}, TRUE, BlockStreams, {FALSE}, {0}, MaxBlockTurns) \/ ThreadSteps

SpecBlocks == Init /\ [][NextBlocks]_vars

\* ======================================================================= claims
ActiveThreads(db, p) ==
    {t \in ThreadIds(db) : db.threads[t].project_id = p /\ db.threads[t].status = "active"}
SeqNumbers(rows) == {rows[i].sequence_number : i \in DOMAIN rows}

\* ---------------------------------------------------------------------------- C1
SeqStrict ==
    \A t \in ThreadIds(database) :
        LET m == getMessagesByThread(database, t)
        IN \A i \in 1..(Len(m) - 1) : m[i].sequence_number < m[i + 1].sequence_number

AppendedMaxPlusOne ==
    \A t \in ThreadIds(database') :
        LET old == IF t \in ThreadIds(database) THEN database.messages[t] ELSE <<>>
            new == database'.messages[t]
        IN Len(new) > Len(old) =>
              /\ SubSeq(new, 1, Len(old)) = old
              /\ \A i \in (Len(old) + 1)..Len(new) :
                    new[i].sequence_number =
                        (IF i = 1 THEN 0 ELSE Max(SeqNumbers(SubSeq(new, 1, i - 1)))) + 1

\* C1: after any calls of createThread, createMessage, archiveThread and deleteThread,
\* the sequence numbers getMessagesByThread returns for a thread are strictly increasing
\* (no duplicates), and every appended message got max(existing in the thread) + 1.
C1_SequenceNumbers == []SeqStrict /\ [][AppendedMaxPlusOne]_vars

\* a thread holds several messages while another thread was archived or deleted
C1_Witness ==
    \E t, u \in ThreadIds(database) :
        /\ Len(getMessagesByThread(database, t)) >= 3
        /\ database.threads[u].status # "active"

\* ---------------------------------------------------------------------------- C2
\* the last request was a startValuation on p that returned, and p was not cleared since
StartReturnedFor(p) ==
    \E d \in Calls : /\ ret[d].kind = "ok" /\ ret[d].op = "start"
                     /\ ret[d].project = p /\ ~ret[d].cleared

\* C2: a startValuation that follows a startValuation on the same project, with no
\* clearConversation in between, creates no thread, does not invoke the agent, and
\* returns an empty batch with done = true.
C2_SecondStartIsNoOp ==
    [][\A c \in Calls, p \in Projects :
          (StartReturnedFor(p) /\ startValuation(c, p)) =>
              /\ database'.threads = database.threads
              /\ database'.messages = database.messages
              /\ nQuery' = nQuery
              /\ calls'[c].pc = "idle"
              /\ ret'[c].kind = "ok" /\ ret'[c].messages = <<>> /\ ret'[c].done]_vars

\* a startValuation returned the empty batch without a turn while the conversation in
\* memory is the one an opening turn made: its history is empty (a restored one would
\* hold the assistant text of the thread, a sendMessage turn its user line)
C2_Witness ==
    \E c \in Calls :
        /\ ret[c].kind = "ok" /\ ret[c].op = "start" /\ ret[c].nq = 0
        /\ ret[c].messages = <<>> /\ ret[c].done
        /\ conversations[ret[c].project] # 0
        /\ LET o == objs[conversations[ret[c].project]]
           IN /\ o.history = <<>>
              /\ ThreadExists(database, o.threadId)
              /\ Len(getMessagesByThread(database, o.threadId)) > 0
              /\ Cardinality({t \in ThreadIds(database) : ThreadExists(database, t)}) = 1

\* ---------------------------------------------------------------------------- C3
\* C3: once the active thread of a project has been archived, the next startValuation for
\* the project creates a new thread, which becomes the active thread: the call does not
\* return while the project has no active thread.
C3_StartAfterArchiveCreatesThread ==
    [][\A c \in Calls, p \in Projects :
          (/\ AllIdle
           /\ ActiveThreads(database, p) = {}
           /\ \E t \in ThreadIds(database) : /\ database.threads[t].project_id = p
                                             /\ database.threads[t].status = "archived"
           /\ startValuation(c, p))
          => (calls'[c].pc = "idle" => ActiveThreads(database', p) # {})]_vars

\* startValuation returned the empty batch without a turn although every thread of the
\* project is archived, and the archived thread kept its messages
C3_Witness ==
    \E c \in Calls :
        /\ ret[c].kind = "ok" /\ ret[c].op = "start" /\ ret[c].nq = 0
        /\ ActiveThreads(database, ret[c].project) = {}
        /\ \E t \in ThreadIds(database) :
              /\ database.threads[t].status = "archived"
              /\ Len(getMessagesByThread(database, t)) > 0

\* ---------------------------------------------------------------------------- C4
\* C4: whenever no call is running, the history restoreConversation rebuilds from the
\* persisted messages of the thread of a conversation equals the history the
\* conversation holds in memory.
C4_HistoryRoundTrip ==
    \A p \in Projects :
        (/\ AllIdle
         /\ conversations[p] # 0
         /\ ThreadExists(database, objs[conversations[p]].threadId))
        => RestoreHistory(database, objs[conversations[p]].threadId)
               = objs[conversations[p]].history

\* ---------------------------------------------------------------------------- C5
TurnsInFlight(p) == {c \in Calls : calls[c].pc = "stream" /\ calls[c].project = p}

\* C5: turns are serialized per project: at most one turn of a project is in flight, and
\* concurrent first calls leave the project with one active thread, not two.
C5_TurnsSerialized ==
    \A p \in Projects :
        /\ Cardinality(TurnsInFlight(p)) <= 1
        /\ Cardinality(ActiveThreads(database, p)) <= 1

\* two first calls ran concurrently and the project has two active threads
C5_Witness ==
    \E p \in Projects :
        /\ Cardinality(ActiveThreads(database, p)) = 2
        /\ Cardinality(TurnsInFlight(p)) = 2

\* ---------------------------------------------------------------------------- C6
InLog(db, t, message) ==
    \E j \in DOMAIN getMessagesByThread(db, t) :
        getMessagesByThread(db, t)[j].content = message.content

\* C6: when a turn that has a thread and met no log write failure returns, every message
\* of the returned batch has a persisted message in the thread.
C6_BatchIsPersisted ==
    \A c \in Calls :
        (/\ ret[c].kind = "ok" /\ ret[c].nq > 0
         /\ ~ret[c].failed
         /\ ThreadExists(database, ret[c].threadId))
        => \A i \in DOMAIN ret[c].messages : InLog(database, ret[c].threadId, ret[c].messages[i])

\* a turn returned the text of the final result event, which is not in the thread, while
\* the tool messages of the same batch are
C6_Witness ==
    \E c \in Calls :
        /\ ret[c].kind = "ok" /\ ~ret[c].failed
        /\ ThreadExists(database, ret[c].threadId)
        /\ Len(ret[c].messages) = 3
        /\ ret[c].messages[3] = [type |-> "text", content |-> T_HELLO, metadata |-> NoMeta]
        /\ ~InLog(database, ret[c].threadId, ret[c].messages[3])
        /\ InLog(database, ret[c].threadId, ret[c].messages[1])
        /\ InLog(database, ret[c].threadId, ret[c].messages[2])

\* ---------------------------------------------------------------------------- C7
\* what the events received so far persist, in the order of the events and of the
\* content blocks inside each event
PersistedOf(chunk) == SelectSeq(ChunkEmissions(chunk, <<>>), LAMBDA e : e.persistAs # "")
ExpectedLog(received) == Flatten([i \in DOMAIN received |-> PersistedOf(received[i])])

\* C7: within a turn, the messages the agent's events appended to the log of the thread
\* are, in increasing sequence number, the messages of the events in the order the
\* events, and the content blocks inside each event, were received.
C7_LogFollowsStream ==
    \A c \in Calls :
        (calls[c].pc = "stream" /\ ThreadExists(database, calls[c].threadId)) =>
            LET log == getMessagesByThread(database, calls[c].threadId)
                exp == ExpectedLog(calls[c].received)
                base == Len(log) - Len(exp)
            IN /\ base >= 0
               /\ \A i \in DOMAIN exp :
                     /\ log[base + i].type = exp[i].persistAs
                     /\ log[base + i].content = exp[i].content
                     /\ log[base + i].metadata = exp[i].metadata
                     /\ \A j \in 1..(base + i - 1) :
                           log[j].sequence_number < log[base + i].sequence_number

\* a turn has received an event with a text block and a tool-use block, then a tool
\* result: seven messages of four kinds are in the log
C7_Witness ==
    \E c \in Calls :
        /\ calls[c].pc = "stream"
        /\ calls[c].received = <<C_DcfBash, C_ToolResult>>
        /\ ThreadExists(database, calls[c].threadId)
        /\ Len(ExpectedLog(calls[c].received)) = 6
        /\ Len(getMessagesByThread(database, calls[c].threadId)) >= 7

\* ---------------------------------------------------------------------------- C8
IsErrorBatch(messages) ==
    Len(messages) > 0 /\ messages[Len(messages)].content = ErrorMessage.content

\* C8: a turn whose stream raised an exception returns a batch that ends with an
\* error-typed message, the message is written to the log, and done is false.
C8_StreamErrorIsReported ==
    \A c \in Calls :
        (ret[c].kind = "ok" /\ IsErrorBatch(ret[c].messages)) =>
            /\ ret[c].messages[Len(ret[c].messages)].type = "error"
            /\ ~ret[c].done
            /\ (ThreadExists(database, ret[c].threadId) /\ ~ret[c].failed)
                  => InLog(database, ret[c].threadId, ret[c].messages[Len(ret[c].messages)])

\* the stream failed after its final result event: the call returned done = true and a
\* text-typed error message that is not in the log
C8_Witness ==
    \E c \in Calls :
        /\ ret[c].kind = "ok" /\ IsErrorBatch(ret[c].messages)
        /\ ret[c].done
        /\ ret[c].messages[Len(ret[c].messages)].type = "text"
        /\ ThreadExists(database, ret[c].threadId)
        /\ ~InLog(database, ret[c].threadId, ret[c].messages[Len(ret[c].messages)])

\* ---------------------------------------------------------------------------- C9
\* C9: a sendMessage without a snapshot, for a project that has no state in memory but
\* has a persisted active thread, restores the state and runs the turn: it does not fail.
C9_SendRestoresWithoutSnapshot ==
    [][\A c \in Calls, p \in Projects :
          (/\ conversations[p] = 0
           /\ ActiveThreads(database, p) # {}
           /\ sendMessage(c, p, FALSE, FALSE))
          => ret'[c].kind # "throw"]_vars

\* a sendMessage threw without a turn while the project has an active thread with messages
C9_Witness ==
    \E c \in Calls :
        /\ ret[c].kind = "throw" /\ ret[c].op = "send" /\ ret[c].nq = 0
        /\ conversations[ret[c].project] = 0
        /\ \E t \in ActiveThreads(database, ret[c].project) :
              Len(getMessagesByThread(database, t)) > 0

\* --------------------------------------------------------------------------- C10
\* C10: clearConversation(p) removes the in-memory state of p only: the threads, their
\* status, the persisted messages and the in-memory state of the other projects stay.
C10_ClearFrame ==
    [][\A p \in Projects :
          clearConversation(p) =>
              /\ conversations'[p] = 0
              /\ database'.threads = database.threads
              /\ database'.messages = database.messages
              /\ \A q \in Projects \ {p} :
                    /\ (conversations[q] = 0) = (conversations'[q] = 0)
                    /\ conversations[q] # 0 => objs'[conversations'[q]] = objs[conversations[q]]]_vars

\* project 1 was cleared (its thread is active, its state is gone) while project 2
\* keeps its state and both threads keep their messages
C10_Witness ==
    /\ conversations[1] = 0
    /\ conversations[2] # 0
    /\ \E t \in ActiveThreads(database, 1) : Len(getMessagesByThread(database, t)) > 0
    /\ \E t \in ActiveThreads(database, 2) :
          /\ Len(getMessagesByThread(database, t)) > 0
          /\ objs[conversations[2]].threadId = t

\* --------------------------------------------------------------------------- C11
\* the conversational turns of a log: its user and assistant_text messages, in order
TurnsOfLog(log) ==
    LET conv == SelectSeq(log, LAMBDA m : m.type \in {"user", "assistant_text"})
    IN [i \in DOMAIN conv |->
           [role |-> IF conv[i].type = "user" THEN "User" ELSE "Assistant",
            parts |-> <<conv[i].content>>]]

\* the call reads the active thread and its messages when it is made ...
C11_Entry ==
    \A c \in Calls, p \in Projects :
        (/\ conversations[p] = 0
         /\ ActiveThreads(database, p) # {}
         /\ startValuation(c, p))
        => /\ calls'[c].pc = "start_restored"
           /\ calls'[c].restored \in ActiveThreads(database, p)
           /\ calls'[c].restoredHist
                 = TurnsOfLog(getMessagesByThread(database, calls'[c].restored))
           /\ database' = database /\ nQuery' = nQuery

\* ... and completes by registering the state and returning the empty batch
C11_Resume ==
    \A c \in Calls :
        (/\ calls[c].pc = "start_restored" /\ calls[c].op = "start"
         /\ calls[c].restored # 0
         /\ calls'[c].pc # "start_restored")
        => /\ calls'[c].pc = "idle"
           /\ ret'[c].kind = "ok" /\ ret'[c].messages = <<>> /\ ret'[c].done
           /\ conversations'[calls[c].project] # 0
           /\ objs'[conversations'[calls[c].project]]
                 = [history |-> calls[c].restoredHist, threadId |-> calls[c].restored]
           /\ database'.threads = database.threads
           /\ database'.messages = database.messages
           /\ nQuery' = nQuery

TextParts(messages) ==
    LET texts == SelectSeq(messages, LAMBDA m : m.type = "text")
    IN [i \in DOMAIN texts |-> texts[i].content]

\* C13: when a sendMessage turn completes, the history in memory grows by the user line
\* and by one assistant entry made of the assistant text of the response only.
C13_HistoryHoldsTextOnly ==
    [][\A c \in Calls :
          (/\ calls[c].pc = "stream" /\ calls[c].phase = "send"
           /\ calls'[c].pc = "idle" /\ ret'[c].kind = "ok"
           /\ conversations'[calls[c].project] = calls[c].conv)
          => LET before == objs[calls[c].conv].history \o <<UserLine(T_USER)>>
                 after == objs'[calls[c].conv].history
             IN \/ after = before
                \/ after = before \o <<AssistantLine(TextParts(ret'[c].messages))>>]_vars

\* the last history entry of a conversation holds the command of a code message and the
\* output of a tool result
C13_Witness ==
    \E p \in Projects :
        /\ conversations[p] # 0
        /\ LET h == objs[conversations[p]].history
           IN /\ Len(h) >= 2
              /\ h[Len(h)].role = "Assistant"
              /\ T_CMD \in Range(h[Len(h)].parts)
              /\ T_OUT \in Range(h[Len(h)].parts)

\* --------------------------------------------------------------------------- C14
IsFallback(m) ==
    /\ m.type = "text"
    /\ m.content = "Response received but could not parse message content."

\* a call that ran a turn did not return an empty batch, and a fallback message is alone
C14_BatchNotEmpty ==
    \A c \in Calls :
        (ret[c].kind = "ok" /\ ret[c].nq > 0) =>
            /\ Len(ret[c].messages) >= 1
            /\ \A i \in DOMAIN ret[c].messages :
                  IsFallback(ret[c].messages[i]) => Len(ret[c].messages) = 1

\* the batch returned is the batch of the stream, or the fallback when that is empty
\* (or the batch and the message of the exception that ended the stream)
C14_FallbackIffEmpty ==
    \A c \in Calls :
        (calls[c].pc = "stream" /\ calls'[c].pc = "idle" /\ ret'[c].kind = "ok") =>
            LET got == calls[c].messages
                out == ret'[c].messages
            IN IF IsErrorBatch(out) THEN out = got \o <<ErrorMessage>>
               ELSE IF got = <<>> THEN Len(out) = 1 /\ IsFallback(out[1])
               ELSE out = got

\* C14: a turn that invoked the agent never returns an empty batch: when the stream ends
\* without a message exactly one fallback text message is returned, and when the stream
\* produced a message no fallback is added.
C14_NeverEmptyBatch == []C14_BatchNotEmpty /\ [][C14_FallbackIffEmpty]_vars

\* a turn whose stream ended without a message returned the fallback message alone
C14_Witness ==
    \E c \in Calls :
        /\ ret[c].kind = "ok" /\ ret[c].nq > 0
        /\ Len(ret[c].messages) = 1 /\ IsFallback(ret[c].messages[1])
        /\ ~ret[c].done

\* --------------------------------------------------------------------------- C15
\* C15: a final-result event marks the turn done, and its text is appended as an assistant
\* text message exactly when no assistant text message of the turn has the same text;
\* messages of other kinds with the same content do not suppress it.
C15_ResultDedupByTextOnly ==
    [][\A c \in Calls :
          (/\ calls[c].pc = "stream" /\ calls'[c].pc = "stream"
           /\ Len(calls'[c].received) = Len(calls[c].received) + 1
           /\ calls'[c].received[Len(calls'[c].received)].type = "result"
           /\ calls'[c].received[Len(calls'[c].received)].text # "")
          => LET text == calls'[c].received[Len(calls'[c].received)].text
                 got == calls[c].messages
                 seen == \E i \in DOMAIN got : got[i].type = "text" /\ got[i].content = text
             IN /\ calls'[c].done
                /\ calls'[c].messages =
                      IF seen THEN got
                      ELSE got \o <<[type |-> "text", content |-> text, metadata |-> NoMeta]>>]_vars

\* the final result repeated the output of a tool result and was dropped: the turn is
\* done and no text message of the batch carries the result text
C15_Witness ==
    \E c \in Calls :
        /\ calls[c].pc = "stream" /\ calls[c].done
        /\ calls[c].received = <<C_DcfBash, C_ToolResult, C_ResultOut>>
        /\ \E i \in DOMAIN calls[c].messages :
              calls[c].messages[i].type = "result" /\ calls[c].messages[i].content = T_OUT
        /\ ~\E i \in DOMAIN calls[c].messages :
              calls[c].messages[i].type = "text" /\ calls[c].messages[i].content = T_OUT

\* --------------------------------------------------------------------------- C16
AtMostOneActiveThread ==
    \A p \in Projects : Cardinality(ActiveThreads(database, p)) <= 1

\* a step that adds a thread adds one, for a project that had no active thread
CreatedWithoutActiveThread ==
    Len(database'.threads) > Len(database.threads) =>
        /\ Len(database'.threads) = Len(database.threads) + 1
        /\ ActiveThreads(database, database'.threads[Len(database'.threads)].project_id) = {}
        /\ database'.threads[Len(database'.threads)].status = "active"

C17_ArchivedThreadIsFrozen ==
    [][\A t \in ThreadIds(database) :
          (/\ AllIdle
           /\ database.threads[t].status = "archived"
           /\ database'.threads[t].status = "archived")
          => database'.messages[t] = database.messages[t]]_vars

\* --------------------------------------------------------------------------- C18
LogTypes ==
    {"user", "assistant_text", "tool_call_start", "code_block", "executing", "result",
     "error", "method_valuation_result", "valuation_result"}

\* C18: every message in the log carries a type of the closed set LogTypes; a tool
\* invocation is logged with type tool_call_start.
C18_LogTypesClosed ==
    \A t \in ThreadIds(database) :
        \A i \in DOMAIN database.messages[t] : database.messages[t][i].type \in LogTypes

\* a tool invocation is in the log with type tool_call, between the rows of its event
C18_Witness ==
    \E t \in ThreadIds(database) :
        LET log == getMessagesByThread(database, t)
        IN \E i \in DOMAIN log :
              /\ log[i].type = "tool_call" /\ log[i].metadata.tool = "Bash"
              /\ i + 2 \in DOMAIN log
              /\ log[i + 1].type = "code_block" /\ log[i + 2].type = "executing"

\* --------------------------------------------------------------------------- C19
\* the messages of one tool-use block: a tool call naming the tool, a code message with
\* the command exactly when the tool is Bash and has a command, an executing message
\* naming the tool
IsToolSegment(ms, block) ==
    LET hasCode == block.name = "Bash" /\ block.command # ""
    IN /\ Len(ms) = IF hasCode THEN 3 ELSE 2
       /\ ms[1].type = "tool_call" /\ ms[1].metadata.tool = block.name
       /\ ms[1].content = "Using " \o block.name \o " tool"
       /\ hasCode => ms[2].type = "code" /\ ms[2].content = block.command
       /\ ms[Len(ms)].type = "executing" /\ ms[Len(ms)].metadata.tool = block.name
       /\ ms[Len(ms)].content = "Executing " \o block.name \o "..."

\* the number of messages of a content block
BlockLength(block) ==
    IF block.type = "tool_use"
    THEN IF block.name = "Bash" /\ block.command # "" THEN 3 ELSE 2
    ELSE Len(TextBlockEmissions(block))

RECURSIVE BlocksLength(_)
BlocksLength(blocks) ==
    IF blocks = <<>> THEN 0 ELSE BlockLength(Head(blocks)) + BlocksLength(Tail(blocks))

\* C19: for every tool-use block of an event the batch holds, contiguously and in this
\* order, one tool call message naming the tool, one code message exactly when the tool
\* is Bash and its input has a command, and one executing message naming the tool.
C19_ToolBlockMessages ==
    \A c \in Calls :
        (calls[c].pc = "stream" /\ Len(calls[c].received) = 1
         /\ calls[c].received[1].type = "assistant") =>
            LET blocks == calls[c].received[1].blocks
                first(k) == BlocksLength(SubSeq(blocks, 1, k - 1)) + 1
            IN /\ Len(calls[c].messages) = BlocksLength(blocks)
               /\ \A k \in DOMAIN blocks :
                     blocks[k].type = "tool_use" =>
                         IsToolSegment(SubSeq(calls[c].messages, first(k),
                                              first(k) + BlockLength(blocks[k]) - 1),
                                       blocks[k])

\* an event with a Bash block with a command and a text block was handled: tool call,
\* code, executing, then the text
C19_Witness ==
    \E c \in Calls :
        /\ calls[c].pc = "stream"
        /\ calls[c].received
              = <<Chunk("assistant", <<ToolUseBlock("Bash", T_LS), TextBlock(T_HELLO)>>,
                        "", FALSE, 0)>>
        /\ Len(calls[c].messages) = 4
        /\ calls[c].messages[2].metadata.language = "bash"

\* --------------------------------------------------------------------------- C20
\* the result markers written in each text, as label and number: none in a greeting or in
\* a text whose labels lack the separator or the number, one per label otherwise
MarkersOf(text) ==
    CASE text = T_HELLO -> {}
      [] text = T_NEAR -> {}
      [] text = T_DCF -> {<<"DCF", 2500000>>}
      [] text = T_COMPS -> {<<"Comps", 3000000>>}
      [] text = T_BOTH -> {<<"DCF", 2500000>>, <<"Comps", 3000000>>}
      [] text = T_BOTH_REV -> {<<"DCF", 2500000>>, <<"Comps", 3000000>>}
MarkedTexts == {T_HELLO, T_NEAR, T_DCF, T_COMPS, T_BOTH, T_BOTH_REV}

\* the messages of the k-th content block of the one event a call has received
SegmentOf(c, k) ==
    LET blocks == calls[c].received[1].blocks
        first == BlocksLength(SubSeq(blocks, 1, k - 1)) + 1
    IN SubSeq(calls[c].messages, first, first + BlockLength(blocks[k]) - 1)

\* C20: a text with one result marker for each label of a set S yields exactly |S|
\* method_valuation_result messages, one per label, each with the label as methodType
\* and the marker's number without its thousands separators as valuationValue; a text
\* without a marker yields none.
C20_OneExtractionPerLabel ==
    \A c \in Calls :
        (calls[c].pc = "stream" /\ Len(calls[c].received) = 1
         /\ calls[c].received[1].type = "assistant") =>
            \A k \in DOMAIN calls[c].received[1].blocks :
                LET block == calls[c].received[1].blocks[k]
                    results == SelectSeq(SegmentOf(c, k),
                                         LAMBDA m : m.type = "method_valuation_result")
                IN (block.type = "text" /\ block.text \in MarkedTexts) =>
                       /\ Len(results) = Cardinality(MarkersOf(block.text))
                       /\ {<<results[i].metadata.methodType, results[i].metadata.valuationValue>> :
                               i \in DOMAIN results} = MarkersOf(block.text)

\* a text with a Comps marker followed by a DCF marker was handled and gave two
\* extraction messages
C20_Witness ==
    \E c \in Calls :
        /\ calls[c].pc = "stream"
        /\ calls[c].received = <<Chunk("assistant", <<TextBlock(T_BOTH_REV)>>, "", FALSE, 0)>>
        /\ Len(SelectSeq(calls[c].messages, LAMBDA m : m.type = "method_valuation_result")) = 2

\* --------------------------------------------------------------------------- C21
\* the number of places of a text where the marker of a label matches (with the g flag
\* every one of them would be a match; two matches cannot overlap)
MarkerCount(text, label, optionalS) ==
    Cardinality({i \in DOMAIN Chars(text) : MarkerAt(Chars(text), i, label, optionalS) # NoMatch})
DcfMarkerCounts == [text \in Texts |-> MarkerCount(text, <<"D", "C", "F">>, FALSE)]
CompsMarkerCounts == [text \in Texts |-> MarkerCount(text, <<"C", "O", "M", "P">>, TRUE)]

\* the extraction messages of a label among the messages of the k-th content block
ResultsOf(c, k, methodType) ==
    SelectSeq(SegmentOf(c, k),
              LAMBDA m : m.type = "method_valuation_result" /\ m.metadata.methodType = methodType)

\* C21: a text in which the marker of a label matches k times yields k extraction
\* messages for that label, one per match.
C21_OneExtractionPerMatch ==
    \A c \in Calls :
        (calls[c].pc = "stream" /\ Len(calls[c].received) = 1
         /\ calls[c].received[1].type = "assistant") =>
            \A k \in DOMAIN calls[c].received[1].blocks :
                LET block == calls[c].received[1].blocks[k]
                IN block.type = "text" =>
                       /\ Len(ResultsOf(c, k, "DCF")) = DcfMarkerCounts[block.text]
                       /\ Len(ResultsOf(c, k, "Comps")) = CompsMarkerCounts[block.text]

\* a text with two DCF markers was handled and gave one extraction message, with the
\* number of the first marker
C21_Witness ==
    \E c \in Calls :
        /\ calls[c].pc = "stream"
        /\ calls[c].received = <<Chunk("assistant", <<TextBlock(T_TWICE)>>, "", FALSE, 0)>>
        /\ DcfMarkerCounts[T_TWICE] = 2
        /\ Len(calls[c].messages) = 2
        /\ calls[c].messages[2].metadata.valuationValue = 1000

\* --------------------------------------------------------------------------- C22
ExtractionCount(ms) == Len(SelectSeq(ms, LAMBDA m : m.type = "method_valuation_result"))
HasTextBlock(chunk) ==
    chunk.type = "assistant" /\ \E k \in DOMAIN chunk.blocks : chunk.blocks[k].type = "text"

\* handling an event without a text block adds no extraction message to the batch or to
\* the log of any thread
NoExtractionWithoutText ==
    \A c \in Calls :
        (/\ calls[c].pc = "stream" /\ calls'[c].pc = "stream"
         /\ Len(calls'[c].received) = Len(calls[c].received) + 1
         /\ ~HasTextBlock(calls'[c].received[Len(calls'[c].received)]))
        => /\ ExtractionCount(calls'[c].messages) = ExtractionCount(calls[c].messages)
           /\ \A t \in ThreadIds(database) :
                 ExtractionCount(getMessagesByThread(database', t))
                     = ExtractionCount(getMessagesByThread(database, t))

\* inside an event with text blocks, the messages of a tool invocation block hold no
\* extraction message
NoExtractionInToolSegment ==
    \A c \in Calls :
        (calls[c].pc = "stream" /\ Len(calls[c].received) = 1
         /\ calls[c].received[1].type = "assistant") =>
            \A k \in DOMAIN calls[c].received[1].blocks :
                calls[c].received[1].blocks[k].type = "tool_use" =>
                    ExtractionCount(SegmentOf(c, k)) = 0

\* C22: no method_valuation_result message is produced while handling a tool invocation
\* block, a code command, a tool-result event or a final result, even when their content
\* holds a result marker: extraction runs over assistant text only.
C22_ExtractionOverTextOnly ==
    [](NoExtractionInToolSegment) /\ [][NoExtractionWithoutText]_vars

\* a tool-result event whose content is a DCF marker was handled: one result message, no
\* extraction message
C22_Witness ==
    \E c \in Calls :
        /\ calls[c].pc = "stream"
        /\ calls[c].received = <<C_ToolResultDcf>>
        /\ dcfMatch(C_ToolResultDcf.text) = 2500000
        /\ Len(calls[c].messages) = 1
        /\ calls[c].messages[1].type = "result"
        /\ calls[c].messages[1].content = T_DCF

\* --------------------------------------------------------------------------- C23
\* the value of the method of a type in the component state, a missing method or an unset
\* value counted as 0
ValueOrZero(type) ==
    LET vs == {panel.methods[i].calculated_value :
                   i \in {j \in DOMAIN panel.methods : panel.methods[j].method_type = type}}
    IN IF vs \subseteq {Null} THEN 0 ELSE (CHOOSE v \in vs : v # Null)[1]

\* C23: once the effect has run, a composite valuation that is shown equals
\* value(DCF) x weight(DCF) + value(Comps) x weight(Comps), a missing or unset value
\* counted as 0 (in hundredths: the weights are hundredths); for DCF = 2,500,000 at 0.6
\* and Comps = 3,000,000 at 0.4 it is 2,700,000.
C23_CompositeIsWeightedSum ==
    ~panel.effectPending =>
        /\ panel.mgxValuation # Null =>
               panel.mgxValuation[1] = ValueOrZero("DCF") * panel.dcfWeight
                                       + ValueOrZero("Comps") * panel.compsWeight
        /\ (/\ ValueOrZero("DCF") = 2500000 /\ panel.dcfWeight = 60
            /\ ValueOrZero("Comps") = 3000000 /\ panel.compsWeight = 40)
           => panel.mgxValuation = Some(2700000 * 100)

\* the panel shows 2,700,000 for DCF = 2,500,000 at 0.6 and Comps = 3,000,000 at 0.4
C23_Witness ==
    /\ ~panel.effectPending
    /\ ValueOrZero("DCF") = 2500000 /\ panel.dcfWeight = 60
    /\ ValueOrZero("Comps") = 3000000 /\ panel.compsWeight = 40
    /\ panel.mgxValuation = Some(270000000)

\* --------------------------------------------------------------------------- C24
\* C24: once the effect has run, the composite valuation is null exactly when neither
\* method value is strictly greater than 0 (0, negative, unset or missing), and is a
\* number whenever at least one of them is strictly greater than 0.
C24_CompositeDefinedIffPositiveValue ==
    ~panel.effectPending =>
        (panel.mgxValuation = Null <=> ~(ValueOrZero("DCF") > 0 \/ ValueOrZero("Comps") > 0))

\* the panel shows a composite with only the DCF value present, and no Comps value counted
C24_Witness ==
    /\ ~panel.effectPending
    /\ ValueOrZero("DCF") = 2500000 /\ ValueOrZero("Comps") = 0
    /\ panel.mgxValuation = Some(2500000 * panel.dcfWeight)
    /\ panel.dcfWeight > 0

\* --------------------------------------------------------------------------- C25
\* the formula applied to the method values and the weights of the component state
CompositeNow ==
    IF ValueOrZero("DCF") > 0 \/ ValueOrZero("Comps") > 0
    THEN Some(ValueOrZero("DCF") * panel.dcfWeight + ValueOrZero("Comps") * panel.compsWeight)
    ELSE Null

\* C25: after any sequence of reloads of the methods, saves of method values and weight
\* adjustments, once the effect has run the composite shown is the formula applied to the
\* current method values and the current weights of the panel.
C25_CompositeNeverStale ==
    ~panel.effectPending => panel.mgxValuation = CompositeNow

\* after a reload that brought a DCF value and a click on a weight button, the composite
\* shown uses the adjusted weight
C25_Witness ==
    /\ ~panel.effectPending
    /\ panel.clicks > 0
    /\ panel.load.pc = "idle"
    /\ ValueOrZero("DCF") = 2500000
    /\ panel.dcfWeight = 65 /\ panel.compsWeight = 35
    /\ panel.mgxValuation = Some(2500000 * 65 + ValueOrZero("Comps") * 35)

\* --------------------------------------------------------------------------- C26
LogLength(db, t) == Len(getMessagesByThread(db, t))

\* an event handled by a turn that meets or has met a log write failure: every message of
\* the event is appended to the batch, and every write but the failing one reaches the log
FailedWriteIsSwallowed ==
    \A c \in Calls :
        (/\ calls[c].pc = "stream" /\ calls'[c].pc = "stream"
         /\ Len(calls'[c].received) = Len(calls[c].received) + 1
         /\ calls'[c].failed
         /\ ThreadExists(database, calls[c].threadId))
        => LET chunk == calls'[c].received[Len(calls'[c].received)]
               es == ChunkEmissions(chunk, calls[c].messages)
           IN /\ Len(calls'[c].messages) = Len(calls[c].messages) + Len(es)
              /\ \A i \in DOMAIN es :
                    calls'[c].messages[Len(calls[c].messages) + i].content = es[i].content
              /\ LogLength(database', calls[c].threadId)
                     >= LogLength(database, calls[c].threadId) + NumPersisted(es) - 1
              /\ calls'[c].done = (calls[c].done \/ chunk.type = "result")

\* a turn that met a log write failure returns a result (the batch ends with an error
\* message only when the stream itself raised an exception later; a sendMessage whose
\* conversation was cleared during its nested startValuation throws with or without a
\* write failure)
FailedTurnReturns ==
    \A c \in Calls : (ret[c].failed /\ ~ret[c].cleared) => ret[c].kind = "ok"

\* C26: a log write failure for an agent-originated message does not abort the turn: the
\* message is in the returned batch, the later writes and the later events of the stream
\* are processed and persisted, and the turn returns normally.
C26_WriteFailureDoesNotAbort ==
    [](FailedTurnReturns) /\ [][FailedWriteIsSwallowed]_vars

\* a turn whose first write failed returned all six messages of its three events with
\* done set; the other five are in the log
C26_Witness ==
    \E c \in Calls :
        /\ ret[c].kind = "ok" /\ ret[c].failed /\ ret[c].done
        /\ Len(ret[c].messages) = 6
        /\ ~IsErrorBatch(ret[c].messages)
        /\ ThreadExists(database, ret[c].threadId)
        /\ LogLength(database, ret[c].threadId) = 5
        /\ ~InLog(database, ret[c].threadId, ret[c].messages[1])

\* --------------------------------------------------------------------------- C27
\* C27: no failure crosses the service API as an exception: whatever the input and
\* whatever fails, startValuation and sendMessage return a `messages, done` result (the
\* IPC wrappers turn what the service throws into `success: false, error`).
C27_NoExceptionCrossesService ==
    \A c \in Calls : ret[c].kind \in {"none", "ok"}

\* a sendMessage without project data, as agent:sendMessage issues it, threw for a project
\* that has no conversation in memory
C27_Witness ==
    \E c \in Calls :
        /\ ret[c].kind = "throw" /\ ret[c].op = "send"
        /\ ret[c].messages = <<>>
        /\ conversations[ret[c].project] = 0

\* --------------------------------------------------------------------------- C28
HandledTypes == {"assistant", "tool_result", "result"}

\* C28: an event whose type is none of assistant, tool_result and result (a system event,
\* for example) leaves the batch, the log of every thread and the done flag as they were.
C28_OtherEventsChangeNothing ==
    [][\A c \in Calls :
          (/\ calls[c].pc = "stream" /\ calls'[c].pc = "stream"
           /\ Len(calls'[c].received) = Len(calls[c].received) + 1
           /\ calls'[c].received[Len(calls'[c].received)].type \notin HandledTypes)
          => /\ calls'[c].messages = calls[c].messages
             /\ calls'[c].done = calls[c].done
             /\ ThreadIds(database') = ThreadIds(database)
             /\ \A t \in ThreadIds(database) :
                   getMessagesByThread(database', t) = getMessagesByThread(database, t)]_vars

\* after a tool-use block, an event of type user with a text block and a result marker
\* was received: the batch still holds the three messages of the tool-use block
C28_Witness ==
    \E c \in Calls :
        /\ calls[c].pc = "stream"
        /\ calls[c].received = <<C_Bash, C_UserDcf>>
        /\ Len(calls[c].messages) = 3
        /\ ~calls[c].done
        /\ ThreadExists(database, calls[c].threadId)
        /\ Len(getMessagesByThread(database, calls[c].threadId)) = 3

\* --------------------------------------------------------------------------- C29
\* the positions of the user and assistant_text messages of a log, in increasing order
ConversationalPositions(log) ==
    LET RECURSIVE From(_)
        From(i) == IF i > Len(log) THEN <<>>
                   ELSE IF log[i].type \in {"user", "assistant_text"} THEN <<i>> \o From(i + 1)
                   ELSE From(i + 1)
    IN From(1)

\* a call holds the result of restoreConversation before it goes on
Restoring(c) == calls[c].pc \in {"start_restored", "send_restored"}

\* the result a call got from restoreConversation, against the database it was read from
RestoredFrom(db, cl) ==
    LET p == cl.project
        t == cl.restored
        h == cl.restoredHist
    IN /\ (t = 0) <=> (ActiveThreads(db, p) = {})
       /\ t = 0 => h = <<>>
       /\ t # 0 =>
            LET log == getMessagesByThread(db, t)
                pos == ConversationalPositions(log)
            IN /\ db.threads[t].status = "active"
               /\ db.threads[t].project_id = p
               /\ \A u \in ActiveThreads(db, p) :
                     db.threads[u].last_message_at <= db.threads[t].last_message_at
               /\ \A i \in 1..(Len(log) - 1) :
                     log[i].sequence_number < log[i + 1].sequence_number
               /\ Len(h) = Len(pos)
               /\ \A k \in DOMAIN h :
                     /\ h[k].parts = <<log[pos[k]].content>>
                     /\ h[k].role = IF log[pos[k]].type = "user" THEN "User" ELSE "Assistant"

Alternates(history) ==
    \A i \in 1..(Len(history) - 1) : history[i].role # history[i + 1].role

\* C30: the history of a conversation, accumulated in memory or restored from the log,
\* alternates between User and Assistant entries: no two consecutive entries have the
\* same role.
C30_HistoryAlternates ==
    \A p \in Projects :
        conversations[p] # 0 => Alternates(objs[conversations[p]].history)

\* a sendMessage returned on a conversation that was restored from the log of a thread
\* whose last turn left a user message and no assistant_text: the restored history ended
\* with a User entry, and the turn added a User and an Assistant entry to it
C30_Witness ==
    \E c \in Calls :
        /\ ret[c].kind = "ok" /\ ret[c].op = "send"
        /\ conversations[ret[c].project] # 0
        /\ LET o == objs[conversations[ret[c].project]]
               log == getMessagesByThread(database, o.threadId)
           IN /\ o.threadId \in ActiveThreads(database, ret[c].project)
              /\ Len(o.history) = 3
              /\ o.history[1].role = "User" /\ o.history[2].role = "User"
              /\ o.history[3].role = "Assistant"
              /\ Len(log) = 2
              /\ log[1].type = "user" /\ log[2].type = "user"

\* --------------------------------------------------------------------------- C31
\* a weight moved by one step and kept within 0..100 hundredths
Stepped(weight, delta) == Max({0, Min({100, weight + delta})})

\* C31: a weight button moves the weight of its method by its step of 5 hundredths from
\* the weight shown, clamped to the range from 0 to 1, for every weight shown, 0 included.
C31_ButtonsStepByFive ==
    [][\A delta \in Deltas :
          /\ handleDcfWeightChange(delta)
                => panel'.dcfWeight = Stepped(panel.dcfWeight, delta)
          /\ handleCompsWeightChange(delta)
                => panel'.compsWeight = Stepped(panel.compsWeight, delta)]_vars

\* the DCF method was stored with weight 0, the panel loaded it and showed 0%, and one
\* click on a DCF weight button left the weight at 0.65 or 0.55
C31_Witness ==
    /\ panel.clicks = 1
    /\ panel.load = NoLoad
    /\ panel.methods = methods
    /\ \E i \in DOMAIN methods : methods[i].method_type = "DCF" /\ methods[i].weight = 0
    /\ panel.dcfWeight \in {65, 55}
    /\ panel.compsWeight = 100 - panel.dcfWeight

\* --------------------------------------------------------------------------- C32
Balanced(pn) ==
    /\ pn.dcfWeight \in 0..100
    /\ pn.compsWeight \in 0..100
    /\ pn.dcfWeight + pn.compsWeight = 100

\* C32: after every DCF or Comps weight adjustment both weights lie between 0 and 1 and
\* the two weights sum to 1, whatever the weights were before.
C32_WeightsSumToOne ==
    [][\A delta \in Deltas :
          (handleDcfWeightChange(delta) \/ handleCompsWeightChange(delta))
              => Balanced(panel')]_vars

\* the stored weights did not sum to 1 (DCF 1.0 next to the default Comps 0.4); after the
\* panel loaded them a click on a DCF button kept DCF at the upper end of the range or
\* moved it down one step, and set Comps to the rest
C32_Witness ==
    /\ panel.clicks = 1
    /\ panel.load = NoLoad
    /\ panel.methods = methods
    /\ Len(methods) = 1 /\ methods[1].method_type = "DCF" /\ methods[1].weight = 100
    /\ panel.dcfWeight \in {100, 95}
    /\ Balanced(panel)

\* --------------------------------------------------------------------------- C33
\* processAgentResponse (ProjectDetail.tsx 316-367): the terminal type of an agent message
terminalType(type) ==
    CASE type = "text" -> "assistant_text"
      [] type = "code" -> "code_block"
      [] type = "tool_call" -> "tool_call_start"
      [] type = "executing" -> "executing"
      [] type = "result" -> "result"
      [] type = "thinking" -> "thinking"
      [] type = "valuation_result" -> "valuation_result"
      [] OTHER -> "assistant_text"
processAgentResponse(messages) == [i \in DOMAIN messages |-> terminalType(messages[i].type)]

\* loadConversationHistory (ProjectDetail.tsx 62-92): the types shown for a thread's log
loadConversationHistory(db, t) ==
    [i \in DOMAIN getMessagesByThread(db, t) |-> getMessagesByThread(db, t)[i].type]

\* a startValuation that created thread t and ran its turn returns its batch
FirstTurnReturns(c, t) ==
    /\ calls[c].pc = "stream" /\ calls[c].op = "start" /\ calls[c].threadId = t
    /\ calls'[c].pc = "idle"
    /\ ret'[c].kind = "ok"
    /\ t \in ActiveThreads(database', calls[c].project)

\* C33: the live view and the reloaded view of a turn agree: the types the terminal shows
\* for the returned batch are the types it shows when the turn is loaded from the log,
\* message for message.
C33_LiveViewIsReloadedView ==
    [][\A c \in Calls, t \in ThreadIds(database) :
          FirstTurnReturns(c, t)
              => processAgentResponse(ret'[c].messages) = loadConversationHistory(database', t)]_vars

\* a first turn of one tool-use block returned: batch and log hold the same three
\* messages, shown live as tool_call_start and from the log as tool_call
C33_Witness ==
    \E c \in Calls :
        /\ ret[c].kind = "ok" /\ ret[c].op = "start" /\ ret[c].nq = 1
        /\ ret[c].threadId \in ActiveThreads(database, ret[c].project)
        /\ Len(ret[c].messages) = 3
        /\ Len(getMessagesByThread(database, ret[c].threadId)) = 3
        /\ processAgentResponse(ret[c].messages)
              = <<"tool_call_start", "code_block", "executing">>
        /\ loadConversationHistory(database, ret[c].threadId)
              = <<"tool_call", "code_block", "executing">>

\* --------------------------------------------------------------------------- C34
\* the batch a turn holds after the events `received`, and the rows it wrote to the log
BatchOfEvents(received) ==
    LET RECURSIVE Upto(_)
        Upto(k) == IF k = 0 THEN <<>>
                   ELSE LET before == Upto(k - 1)
                        IN before \o ToBatch(ChunkEmissions(received[k], before))
    IN Upto(Len(received))
RowsOfEvents(received) ==
    LET RECURSIVE Upto(_)
        Upto(k) == IF k = 0 THEN <<>>
                   ELSE LET before == Upto(k - 1)
                            es == ChunkEmissions(received[k], BatchOfEvents(SubSeq(received, 1, k - 1)))
                            kept == SelectSeq(es, LAMBDA e : e.persistAs # "")
                        IN before \o [i \in DOMAIN kept |-> <<kept[i].persistAs, kept[i].content>>]
    IN Upto(Len(received))
RowsOfLog(log) == [i \in DOMAIN log |-> <<log[i].type, log[i].content>>]
StreamPrefixes(Streams) == UNION {{SubSeq(st, 1, k) : k \in 0..Len(st)} : st \in Streams}

\* threads are created by the opening turn of a call only, one at a time
OneThreadPerOpening ==
    Len(database'.threads) # Len(database.threads)
        => /\ Len(database'.threads) = Len(database.threads) + 1
           /\ \E c \in Calls : /\ calls[c].pc = "start_restored" /\ calls[c].restored = 0
                               /\ calls'[c].pc = "stream" /\ calls'[c].phase = "start"
                               /\ calls'[c].nq = 1

\* a sendMessage that found neither state in memory nor an active thread runs the opening
\* turn as its first collaborator call, and the user's turn as its second when the opening
\* turn has ended
OpeningThenUserTurn ==
    \A c \in Calls :
        /\ (/\ calls[c].op = "send" /\ calls[c].pc = "start_restored" /\ calls[c].restored = 0
            /\ calls'[c].pc # "start_restored")
           => calls'[c].pc = "stream" /\ calls'[c].nq = 1 /\ calls'[c].phase = "start"
        /\ (/\ calls[c].op = "send" /\ calls[c].pc = "stream" /\ calls[c].phase = "start"
            /\ (calls'[c].pc # "stream" \/ calls'[c].phase # "start")
            /\ conversations[calls[c].project] # 0)
           => /\ calls[c].nq = 1
              /\ calls'[c].pc = "stream" /\ calls'[c].nq = 2 /\ calls'[c].phase = "send"
              /\ calls'[c].messages = <<>>

\* on return the batch is the user turn's, and the log is opening turn, user message,
\* user turn
SecondTurnReturned ==
    \A c \in Calls :
        (/\ calls[c].op = "send" /\ calls[c].nq = 2 /\ calls[c].pc = "stream"
         /\ calls'[c].pc = "idle"
         /\ ThreadExists(database', calls[c].threadId))
        => /\ ret'[c].kind = "ok"
           /\ calls[c].messages = BatchOfEvents(calls[c].received)
           /\ SubSeq(ret'[c].messages, 1, Len(calls[c].messages)) = calls[c].messages
           /\ Len(ret'[c].messages) <= Len(calls[c].messages) + 1
           /\ \E opening \in StreamPrefixes(SessionStreams) :
                 RowsOfLog(getMessagesByThread(database', calls[c].threadId))
                    = RowsOfEvents(opening) \o <<<<"user", T_USER>>>>
                      \o RowsOfEvents(calls[c].received)

ClearIsNotUndone ==
    \A c \in Calls :
        (/\ calls[c].pc = "stream" /\ conversations[calls[c].project] = 0
         /\ calls'[c] # calls[c] /\ calls'[c].pc \in {"stream", "idle"})
        => conversations'[calls[c].project] = 0

\* the events of such a turn still reach the log of its thread
ClearedTurnIsLogged ==
    \A c \in Calls :
        (/\ calls[c].pc = "stream" /\ conversations[calls[c].project] = 0
         /\ ThreadExists(database, calls[c].threadId)
         /\ Len(calls'[c].received) = Len(calls[c].received) + 1)
        => RowsOfLog(getMessagesByThread(database', calls[c].threadId))
              = RowsOfLog(getMessagesByThread(database, calls[c].threadId))
                \o SubSeq(RowsOfEvents(calls'[c].received),
                          Len(RowsOfEvents(calls[c].received)) + 1,
                          Len(RowsOfEvents(calls'[c].received)))

\* after such a turn has returned, startValuation restores from its thread and creates none
RestoredAfterClearedTurn ==
    \A c, d \in Calls :
        (/\ ret[c].kind = "ok" /\ ret[c].cleared /\ ret[c].nq > 0
         /\ conversations[ret[c].project] = 0
         /\ ret[c].threadId \in ActiveThreads(database, ret[c].project)
         /\ startValuation(d, ret[c].project))
        => /\ calls'[d].pc = "start_restored"
           /\ calls'[d].restored \in ActiveThreads(database, ret[c].project)
           /\ calls'[d].restoredHist = RestoreHistory(database, calls'[d].restored)
           /\ Len(database'.threads) = Len(database.threads)

ResultConsumed(received) == \E i \in DOMAIN received : received[i].type = "result"

\* while the stream is drained the flag says whether a final result event was handled
DoneFollowsResult ==
    \A c \in Calls : calls[c].pc = "stream" => (calls[c].done <=> ResultConsumed(calls[c].received))

\* the flag returned is the flag of the turn, whether the stream ended or threw
DoneIsReturned ==
    \A c \in Calls :
        (calls[c].pc = "stream" /\ calls'[c].pc = "idle" /\ ret'[c].kind = "ok")
            => (ret'[c].done <=> ResultConsumed(calls[c].received))

\* C36: a turn that invoked the collaborator returns done = true exactly when a final
\* result event was consumed from the stream before it ended or threw; a stream that ends
\* without one returns done = false.
C36_DoneIffFinalResult == []DoneFollowsResult /\ [][DoneIsReturned]_vars

\* a turn returned after the text, the tool use and the tool result, with no final result
\* event: six messages, the last one the tool result, and done = false
C36_Witness ==
    \E c \in Calls :
        /\ ret[c].kind = "ok" /\ ret[c].nq = 1 /\ ~ret[c].failed
        /\ Len(ret[c].messages) = 6
        /\ ret[c].messages[6].type = "result"
        /\ ~ret[c].done

\* --------------------------------------------------------------------------- C37
Outstanding == {i \in DOMAIN panel.handlers : panel.handlers[i].stage = "request"}

\* at most one request is outstanding, and isProcessing is true while a handler runs and
\* false otherwise
OneRequestAtATime ==
    /\ Cardinality(Outstanding) <= 1
    /\ Len(panel.handlers) <= 1
    /\ panel.isExecuting <=> panel.handlers # <<>>

\* no request is issued while isProcessing is true, and the handler that finishes sets
\* isProcessing to false, whatever the request ended with
GuardedAndReleased ==
    /\ panel'.requests # panel.requests => ~panel.isExecuting
    /\ Len(panel'.handlers) < Len(panel.handlers) => ~panel'.isExecuting

\* C37: the terminal issues at most one agent request at a time: while a start or send
\* request is outstanding (isProcessing true) neither SEND nor START AGENT issues another,
\* and when a request has finished, with a response, with success = false or with a
\* rejection, isProcessing is false again.
C37_OneRequestAtATime == []OneRequestAtATime /\ [][GuardedAndReleased]_vars

\* text was typed and sent while the start request was not outstanding any more, and the
\* third request is now outstanding with isProcessing true
C37_Witness ==
    /\ panel.requests = 3
    /\ panel.handlers = <<Handler("send", "request")>>
    /\ panel.isExecuting
    /\ panel.input = ""
    /\ panel.messages >= 3

\* --------------------------------------------------------------------------- C38
\* the sequence numbers of a thread of n messages are 1..n
NoGaps ==
    \A t \in ThreadIds(database) :
        SeqNumbers(database.messages[t]) = 1..Len(database.messages[t])

\* the messages of a thread that is not deleted stay as they were written
MessagesImmutable ==
    \A t \in ThreadIds(database) :
        database'.threads[t].status # "deleted"
            => LET old == getMessagesByThread(database, t)
                   new == getMessagesByThread(database', t)
               IN /\ Len(new) >= Len(old)
                  /\ \A i \in DOMAIN old :
                        /\ new[i].type = old[i].type
                        /\ new[i].content = old[i].content
                        /\ new[i].sequence_number = old[i].sequence_number

\* C38: messages are never deleted or renumbered one by one: in every state the sequence
\* numbers of a thread that holds n messages are exactly 1..n, and the type, content and
\* sequence number of a message that exists never change.
C38_MessagesDenseAndImmutable == []NoGaps /\ [][MessagesImmutable]_vars

\* a turn returned after one of its log writes failed: its thread holds the other
\* messages, numbered without a gap
C38_Witness ==
    \E c \in Calls :
        /\ ret[c].kind = "ok" /\ ret[c].failed
        /\ ThreadExists(database, ret[c].threadId)
        /\ Len(database.messages[ret[c].threadId]) >= 4
        /\ Len(database.messages[ret[c].threadId]) < Len(ret[c].messages)
        /\ SeqNumbers(database.messages[ret[c].threadId])
              = 1..Len(database.messages[ret[c].threadId])

\* --------------------------------------------------------------------------- C39
IsExtraction(m, methodType) ==
    m.type = "method_valuation_result" /\ m.metadata.methodType = methodType
\* the text at position src of ms holds the marker that the extraction e reports
ExtractedFrom(ms, src, e, textType) ==
    /\ ms[src].type = textType
    /\ ms[src].content \in MarkedTexts
          => <<e.metadata.methodType, e.metadata.valuationValue>> \in MarkersOf(ms[src].content)

\* every extraction message of ms stands directly after its text: a DCF extraction right
\* after the text, a Comps extraction right after the text or after the DCF extraction of
\* the same text
ExtractionsFollowText(ms, textType) ==
    \A i \in DOMAIN ms :
        /\ IsExtraction(ms[i], "DCF") => i > 1 /\ ExtractedFrom(ms, i - 1, ms[i], textType)
        /\ IsExtraction(ms[i], "Comps") =>
              /\ i > 1
              /\ IF IsExtraction(ms[i - 1], "DCF")
                 THEN i > 2 /\ ExtractedFrom(ms, i - 2, ms[i], textType)
                 ELSE /\ ExtractedFrom(ms, i - 1, ms[i], textType)
                      /\ ms[i - 1].content \in MarkedTexts
                            => \A mk \in MarkersOf(ms[i - 1].content) : mk[1] # "DCF"
        /\ ms[i].type = "method_valuation_result" => ms[i].metadata.methodType \in MethodTypes

====
